---- MODULE Spec2Model ----
(***************************************************************************)
(* A model of the ethora-uptime check engine: the in-memory run lock, the  *)
(* manual trigger and the scheduler tick around it, the check executor,    *)
(* the XMPP room-echo check and the journey runner.                        *)
(*                                                                         *)
(* Each part has its own specification (Spec, SpecExec, SpecEcho,          *)
(* SpecJourney); the variables of the other parts stay at their initial    *)
(* values.                                                                 *)
(***************************************************************************)
EXTENDS Integers, Sequences, FiniteSets, TLC

\* ------------------------------------------------------------------------
\* Bounds of the model.
\* ------------------------------------------------------------------------

\* Number of withCheckLock calls, scheduler ticks and manual triggers that
\* one behaviour issues.
MaxTasks == 3

\* Largest ETHORA_USERS_COUNT of the environment.
MaxUsersCount == 2

\* Largest number of checks of an instance.
MaxChecks == 3

\* ------------------------------------------------------------------------
\* State.
\* ------------------------------------------------------------------------
VARIABLES
    inFlight,   \* runLock.ts: the Set of keys currently held
    task,       \* one record per call / tick / manual request
    checkRuns,  \* rows appended to the check_runs table, in order
    sess,       \* one record per XMPP client created by joinRoomByWs
    echo,       \* the locals of one runXmppMucEchoCheck execution
    ex,         \* one call of runCheckWithOpts and the strategy it runs
    jr,         \* the locals of one runJourney / runJourneyAdvanced run
    plat,       \* what exists on the platform, and the cleanup requests sent
    wait,       \* the pending waitForRoomMessage of the run
    jc,         \* the runJourneyCheck that races the run against its deadline
    sm          \* one GET /api/summary request over the checks of an instance

lockVars == <<inFlight, task, checkRuns>>

echoVars == <<sess, echo>>

execVars == <<ex>>

journeyVars == <<jr, plat, wait, jc>>

summaryVars == <<sm>>

vars == <<lockVars, echoVars, execVars, journeyVars, summaryVars>>

\* What the actions of one part leave unchanged.
notLock == <<echoVars, execVars, journeyVars, summaryVars>>

notEcho == <<lockVars, execVars, journeyVars, summaryVars>>

notExec == <<lockVars, echoVars, journeyVars, summaryVars>>

notJourney == <<lockVars, echo, execVars, summaryVars>>

notSummary == <<lockVars, echoVars, execVars, journeyVars>>

\* ------------------------------------------------------------------------
\* Configuration: the ids of checkMap (server.ts), "<instance>:<check>".
\* ------------------------------------------------------------------------
CheckIds == {"i1:c1", "i1:c2"}

\* A check configured with enabled: false: it is not scheduled.
DisabledIds == {"i1:c3"}

\* server.ts, lines 23-29: checkMap has an entry for every check of the
\* configuration, whatever its enabled flag.
checkMap == CheckIds \cup DisabledIds

\* What a POST /api/run-check body may carry as checkId: the id of a
\* scheduled check, the id of a disabled check, nothing, an unknown id.
RequestIds == {"i1:c1"} \cup DisabledIds \cup {"", "i9:zz"}

Tasks == 1..MaxTasks

IdleTask ==
    [kind |-> "none", key |-> "", pc |-> "idle", outcome |-> "none",
     errCode |-> "", errCheckId |-> "", ran |-> FALSE, overlapped |-> FALSE,
     status |-> 0]

\* Requests are numbered in the order they are issued.
Fresh(t) ==
    /\ task[t].pc = "idle"
    /\ \A u \in Tasks : u < t => task[u].pc # "idle"

\* The check executions in flight for check id c: a scheduled tick or a
\* manual trigger that has called runCheck and not yet got its result.
Executing(c) ==
    {t \in Tasks : /\ task[t].kind \in {"tick", "manual"}
                   /\ task[t].pc = "running"
                   /\ task[t].key = c}

\* ------------------------------------------------------------------------
\* runLock.ts
\* ------------------------------------------------------------------------

isCheckLocked(key) == key \in inFlight

\* Mutant: one lock for all keys, a call is refused while any key is held.
withCheckLock_refuses_anyHeld(key) == inFlight # {}

\* Mutant: the membership test is skipped, every call is admitted.
withCheckLock_refuses_never(key) == FALSE

\* withCheckLock, line 14: the call is refused when the key is in the set.
withCheckLock_refuses(key) == key \in inFlight

\* Mutant: the refusal is reported as a plain Error, without code/checkId.
ConflictError_generic(key) == [errCode |-> "", errCheckId |-> ""]

\* withCheckLock, line 15: the error thrown on a held key.
ConflictError(key) == [errCode |-> "CHECK_ALREADY_RUNNING", errCheckId |-> key]

\* Mutant: the key is deleted only when fn resolved (no finally).
inFlightAfterSettle_noFinally(key, settled) ==
    IF settled = "resolved" THEN inFlight \ {key} ELSE inFlight

\* withCheckLock, lines 18-22: the finally deletes the key however fn settled.
inFlightAfterSettle(key, settled) == inFlight \ {key}

\* Mutant: a refused call deletes the key on its way out.
withCheckLock_enter_refusalReleases(t, key, kind) ==
    IF withCheckLock_refuses(key)
    THEN /\ task' = [task EXCEPT ![t] =
                [IdleTask EXCEPT !.kind = kind, !.key = key, !.pc = "done",
                     !.outcome = "rejected",
                     !.errCode = ConflictError(key).errCode,
                     !.errCheckId = ConflictError(key).errCheckId]]
         /\ inFlight' = inFlight \ {key}
    ELSE /\ inFlight' = inFlight \cup {key}
         /\ task' = [task EXCEPT ![t] =
                [IdleTask EXCEPT !.kind = kind, !.key = key, !.pc = "running",
                     !.ran = TRUE]]

\* withCheckLock(key, fn), lines 13-17 and the call of fn on line 19: the part
\* that runs synchronously, up to the first suspension inside fn.
withCheckLock_enter(t, key, kind) ==
    IF withCheckLock_refuses(key)
    THEN /\ task' = [task EXCEPT ![t] =
                [IdleTask EXCEPT !.kind = kind, !.key = key, !.pc = "done",
                     !.outcome = "rejected",
                     !.errCode = ConflictError(key).errCode,
                     !.errCheckId = ConflictError(key).errCheckId]]
         /\ UNCHANGED inFlight
    ELSE /\ inFlight' = inFlight \cup {key}
         /\ task' = [task EXCEPT ![t] =
                [IdleTask EXCEPT !.kind = kind, !.key = key, !.pc = "running",
                     !.ran = TRUE]]

\* A caller invokes withCheckLock(key, fn) with some async function fn.
WithCheckLockCall(t, key) ==
    /\ UNCHANGED notLock
    /\ Fresh(t)
    /\ withCheckLock_enter(t, key, "call")
    /\ UNCHANGED checkRuns

\* fn settles (resolved or rejected); the continuation of line 19 runs the
\* finally and the promise of withCheckLock settles the same way.
FnSettle(t, settled) ==
    /\ UNCHANGED notLock
    /\ task[t].kind = "call"
    /\ task[t].pc = "running"
    /\ inFlight' = inFlightAfterSettle(task[t].key, settled)
    /\ task' = [task EXCEPT ![t].pc = "done", ![t].outcome = settled]
    /\ UNCHANGED checkRuns

\* ------------------------------------------------------------------------
\* server.ts: POST /api/run-check
\* ------------------------------------------------------------------------

\* The row inserted into check_runs (lines 64-75); by is the request that
\* wrote it.
RunRow(id, ok, t) == [check_id |-> id, ok |-> ok, by |-> t]

\* Lines 55-63: validation, lookup in checkMap, then runCheck(chk) is called
\* and awaited.  overlapped records whether an execution of the same check
\* was in flight when this one was issued.
ManualTrigger(t, id) ==
    /\ UNCHANGED notLock
    /\ Fresh(t)
    /\ task' = [task EXCEPT ![t] =
          IF id = ""
          THEN [IdleTask EXCEPT !.kind = "manual", !.key = id, !.pc = "done",
                    !.outcome = "error", !.status = 422]
          ELSE IF id \notin checkMap
          THEN [IdleTask EXCEPT !.kind = "manual", !.key = id, !.pc = "done",
                    !.outcome = "error", !.status = 404]
          ELSE [IdleTask EXCEPT !.kind = "manual", !.key = id, !.pc = "running",
                    !.ran = TRUE, !.overlapped = (Executing(id) # {})]]
    /\ UNCHANGED <<inFlight, checkRuns>>

\* Lines 63-76: runCheck resolved with run; the row is inserted and the
\* result is returned inline.
ManualComplete(t, ok) ==
    /\ UNCHANGED notLock
    /\ task[t].kind = "manual"
    /\ task[t].pc = "running"
    /\ checkRuns' = Append(checkRuns, RunRow(task[t].key, ok, t))
    /\ task' = [task EXCEPT ![t].pc = "done", ![t].outcome = "responded",
                            ![t].status = 200]
    /\ UNCHANGED inFlight

\* Line 63: runCheck rejected (checker.ts 122-139, the WebSocket constructor
\* throws in the executor).  The await is not in a try: the handler stops
\* there, nothing is inserted and no run is returned.
ManualRejects(t) ==
    /\ UNCHANGED notLock
    /\ task[t].kind = "manual"
    /\ task[t].pc = "running"
    /\ task' = [task EXCEPT ![t].pc = "done", ![t].outcome = "rejected"]
    /\ UNCHANGED <<inFlight, checkRuns>>

\* Mutant: a scheduler whose timers stop once a tick has failed.
SchedulerTick_haltedByFailure(t, c) ==
    /\ UNCHANGED notLock
    /\ Fresh(t)
    /\ \A u \in Tasks : task[u].outcome # "logged"
    /\ IF isCheckLocked(c)
       THEN /\ task' = [task EXCEPT ![t] =
                  [IdleTask EXCEPT !.kind = "tick", !.key = c, !.pc = "done",
                       !.outcome = "skipped",
                       !.overlapped = (Executing(c) # {})]]
            /\ UNCHANGED inFlight
       ELSE /\ inFlight' = inFlight \cup {c}
            /\ task' = [task EXCEPT ![t] =
                  [IdleTask EXCEPT !.kind = "tick", !.key = c, !.pc = "running",
                       !.ran = TRUE, !.overlapped = (Executing(c) # {})]]
    /\ UNCHANGED checkRuns

\* ------------------------------------------------------------------------
\* scheduler.ts is not among the sources; its tick follows the description
\* of the scheduler: skip silently when the key is locked, otherwise run the
\* check under the lock, write the result, release.
\* ------------------------------------------------------------------------
SchedulerTick(t, c) ==
    /\ UNCHANGED notLock
    /\ Fresh(t)
    /\ IF isCheckLocked(c)
       THEN /\ task' = [task EXCEPT ![t] =
                  [IdleTask EXCEPT !.kind = "tick", !.key = c, !.pc = "done",
                       !.outcome = "skipped",
                       !.overlapped = (Executing(c) # {})]]
            /\ UNCHANGED inFlight
       ELSE /\ inFlight' = inFlight \cup {c}
            /\ task' = [task EXCEPT ![t] =
                  [IdleTask EXCEPT !.kind = "tick", !.key = c, !.pc = "running",
                       !.ran = TRUE, !.overlapped = (Executing(c) # {})]]
    /\ UNCHANGED checkRuns

\* The executor returned: the result is written and the lock released.
TickComplete(t, ok) ==
    /\ UNCHANGED notLock
    /\ task[t].kind = "tick"
    /\ task[t].pc = "running"
    /\ checkRuns' = Append(checkRuns, RunRow(task[t].key, ok, t))
    /\ inFlight' = inFlightAfterSettle(task[t].key, "resolved")
    /\ task' = [task EXCEPT ![t].pc = "done", ![t].outcome = "written"]

\* An exception during the tick is caught and logged; the lock is released.
TickFails(t) ==
    /\ UNCHANGED notLock
    /\ task[t].kind = "tick"
    /\ task[t].pc = "running"
    /\ inFlight' = inFlightAfterSettle(task[t].key, "rejected")
    /\ task' = [task EXCEPT ![t].pc = "done", ![t].outcome = "logged"]
    /\ UNCHANGED checkRuns

\* ------------------------------------------------------------------------
\* checker.ts: joinRoomByWs (lines 272-329).  One record per client:
\*   conn     "none" | "starting" | "online" | "stopped" | "failed"
\*   handler  the presence stanzaHandler is attached
\*   timer    the join timeout is armed
\*   promise  the promise joinRoomByWs returned
\*   err      what it was rejected with
\* ------------------------------------------------------------------------
EchoSessions == {"admin", "user2", "user1"}

\* The clients of runJourneyAdvanced.
JourneySessions ==
    {"observer", "bobTest", "aliceTest", "bobValidation", "aliceValidation",
     "bobRejoin"}

SessionIds == EchoSessions \cup JourneySessions

NoSession ==
    [conn |-> "none", handler |-> FALSE, timer |-> FALSE,
     promise |-> "none", err |-> "", stage |-> "", errStage |-> ""]

\* The stage argument of the joinRoomByWs call that opens the session:
\* checker.ts 396, 401, 423 and journeyRunner.ts 670-677, 804-805, 822-823,
\* 882.
StageOf(s) ==
    CASE s = "admin" -> "admin_join_create_room"
      [] s = "user2" -> "user2_join"
      [] s = "user1" -> "user1_join"
      [] s = "observer" -> "observer"
      [] s = "bobTest" -> "bob_test"
      [] s = "aliceTest" -> "alice_test"
      [] s = "bobValidation" -> "bob_validation"
      [] s = "aliceValidation" -> "alice_validation"
      [] OTHER -> "bob_rejoin"

\* A connection that exists on the server side.
IsOpen(x) == x.conn \in {"starting", "online"}

\* Lines 281-282 and 327: the client is created and start() is called.
joinStarted(stage) ==
    [conn |-> "starting", handler |-> FALSE, timer |-> FALSE,
     promise |-> "pending", err |-> "", stage |-> stage, errStage |-> ""]

\* resolve/reject of the promise: only the first call has an effect.
settle(x, how, err) ==
    IF x.promise = "pending" THEN [x EXCEPT !.promise = how, !.err = err] ELSE x

\* reject(new Error(`NAME(${stage})`)): the message carries the stage.
rejectTagged(x, name) ==
    IF x.promise = "pending"
    THEN [x EXCEPT !.promise = "rejected", !.err = name, !.errStage = x.stage]
    ELSE x

\* Lines 288-291: cleanup() detaches the stanza handler and clears the timer.
cleanup(x) == [x EXCEPT !.handler = FALSE, !.timer = FALSE]

\* xmpp.stop()
stop(x) == [x EXCEPT !.conn = "stopped"]

\* Lines 293-297: the 'error' listener.
onError(x) == settle(stop(cleanup(x)), "rejected", "transport")

\* Lines 299-325: the 'online' listener attaches the stanza handler, arms the
\* timeout and sends the room presence.
onOnline(x) == [x EXCEPT !.conn = "online", !.handler = TRUE, !.timer = TRUE]

\* Lines 306-310: a presence of type error rejects the join; the client is
\* not stopped.
onPresenceError(x) == rejectTagged(cleanup(x), "XMPP_JOIN_ERROR")

\* A stanzaHandler that resolves the join without cleanup(): the handler and
\* the timer stay.
stanzaHandler_keepsTimer(x, st) ==
    IF st.kind # "presence" THEN x
    ELSE IF st.type = "error" THEN onPresenceError(x)
    ELSE IF st.from # "room" THEN x
    ELSE settle(x, "resolved", "")

\* A stanzaHandler that looks at the sender before the type: a presence error
\* from another address is ignored.
stanzaHandler_roomOnly(x, st) ==
    IF st.kind # "presence" THEN x
    ELSE IF st.from # "room" THEN x
    ELSE IF st.type = "error" THEN rejectTagged(cleanup(x), "XMPP_JOIN_ERROR")
    ELSE settle(cleanup(x), "resolved", "")

\* Lines 302-313: stanzaHandler.  from is the bare address of the sender:
\* "room" when it equals roomJid.
stanzaHandler(x, st) ==
    IF st.kind # "presence" THEN x
    ELSE IF st.type = "error" THEN onPresenceError(x)
    ELSE IF st.from # "room" THEN x
    ELSE settle(cleanup(x), "resolved", "")

\* Lines 316-321: the join timeout.
onJoinTimeout(x) == rejectTagged(stop(cleanup(x)), "XMPP_JOIN_ROOM_TIMEOUT")

\* Line 327: start() rejected; no connection was established.
onStartRejected(x) == settle([x EXCEPT !.conn = "failed"], "rejected", "start")

\* The stanzas a server may deliver.
Stanzas ==
    [kind : {"presence", "message"}, type : {"", "error", "groupchat"},
     from : {"room", "other"}, body : {"marker", "other"}]

\* ------------------------------------------------------------------------
\* checker.ts: runXmppMucEchoCheck (lines 331-446).
\*   pc       where the function is suspended
\*   held     the clients assigned to adminXmpp / xmpp2 / xmpp1
\*   msgHandler  messageHandler is attached to xmpp2
\*   markerSent  xmpp1.send(msg) was called
\*   received    the flag of line 403
\*   calls    the administrative HTTP calls issued so far
\*   reg, ch  the answers to /register and /change_password of the account
\*            being ensured (lines 250 and 264)
\*   race     the Promise.race of lines 428-431
\*   result   the CheckRunResult returned
\* ------------------------------------------------------------------------
NoResult == [ok |-> FALSE, errorText |-> "none"]

\* check.timeoutMs as the configuration may give it; 0 stands for unset.
CheckTimeouts == {0, 1000, 8000, 15000}

Min(a, b) == IF a < b THEN a ELSE b

Max(a, b) == IF a >= b THEN a ELSE b

\* Line 333: Math.max(4000, Number(check.timeoutMs || 15000)).
effectiveTimeoutMs(checkTimeoutMs) ==
    Max(4000, IF checkTimeoutMs = 0 THEN 15000 ELSE checkTimeoutMs)

\* The deadline given to the stage that starts at position pc: userOpTimeout
\* (line 377) for each administrative account call, line 389 for
\* /destroy_room, adminJoinTimeout (392), joinTimeout (400) and the echo wait
\* of line 430.
StageDeadline(pc, timeoutMs) ==
    CASE pc \in {"register1", "change1", "register2", "change2"} -> Min(6000, timeoutMs)
      [] pc = "destroy" -> Min(8000, timeoutMs)
      [] pc \in {"adminJoin", "user2Join", "user1Join"} -> Min(10000, timeoutMs)
      [] pc = "awaitEcho" -> Min(7000, timeoutMs)
      [] OTHER -> 0

\* What ejabberdPostJson resolves with (lines 226 and 235): ok, the status,
\* and of the lower-cased text of data the keyword it contains, if any.
NoResponse == [ok |-> FALSE, status |-> -1, text |-> ""]

ApiResponses ==
    {[ok |-> TRUE, status |-> 200, text |-> ""],
     [ok |-> FALSE, status |-> 409, text |-> ""],
     [ok |-> FALSE, status |-> 400, text |-> "conflict"],
     [ok |-> FALSE, status |-> 500, text |-> "already"],
     [ok |-> FALSE, status |-> 400, text |-> "exists"],
     [ok |-> FALSE, status |-> 500, text |-> ""],
     [ok |-> FALSE, status |-> 0, text |-> ""]}

\* Only the conflict status counts as 'already exists'.
looksLikeAlreadyExists_statusOnly(reg) == reg.status = 409

\* Lines 254-258.
looksLikeAlreadyExists(reg) ==
    \/ reg.status = 409
    \/ reg.text = "conflict"
    \/ reg.text = "already"
    \/ reg.text = "exists"

\* The administrative call that is issued on entering position pc: lines 250,
\* 264 and 389.
CallAt(pc) ==
    CASE pc = "register1" -> [path |-> "/register", user |-> "user1"]
      [] pc = "register2" -> [path |-> "/register", user |-> "user2"]
      [] pc = "change1" -> [path |-> "/change_password", user |-> "user1"]
      [] pc = "change2" -> [path |-> "/change_password", user |-> "user2"]
      [] OTHER -> [path |-> "/destroy_room", user |-> ""]

EchoInit ==
    [pc |-> "init", timeoutMs |-> 0, deadlines |-> 0,
     calls |-> <<>>, reg |-> NoResponse, ch |-> NoResponse,
     ensured |-> {}, held |-> {}, msgHandler |-> FALSE, markerSent |-> FALSE,
     received |-> FALSE, receivedPromise |-> "none", race |-> "none",
     result |-> NoResult]

\* The session the function is awaiting the join of.
AwaitedJoin ==
    CASE echo.pc = "adminJoin" -> "admin"
      [] echo.pc = "user2Join" -> "user2"
      [] echo.pc = "user1Join" -> "user1"
      [] OTHER -> "none"

\* The awaited promise has settled: the continuation of the await runs before
\* any further event is delivered.
EchoReady ==
    \/ AwaitedJoin # "none" /\ sess[AwaitedJoin].promise # "pending"
    \/ echo.pc = "awaitEcho" /\ echo.race # "pending"

\* Lines 435-438: the catch block.
EchoCatch(e, message) ==
    [e EXCEPT !.pc = "finally", !.received = FALSE,
              !.result = [ok |-> FALSE, errorText |-> message]]

\* Lines 332-348: the environment is read; without an admin password the
\* check is skipped before anything is opened.
EchoStart(hasAdminPassword, checkTimeoutMs) ==
    /\ echo.pc = "init"
    /\ echo' = IF hasAdminPassword
               THEN [echo EXCEPT !.pc = "register1",
                        !.calls = <<CallAt("register1")>>,
                        !.timeoutMs = effectiveTimeoutMs(checkTimeoutMs),
                        !.deadlines = StageDeadline("register1", effectiveTimeoutMs(checkTimeoutMs))]
               ELSE [echo EXCEPT !.pc = "returned",
                        !.timeoutMs = effectiveTimeoutMs(checkTimeoutMs),
                        !.result = [ok |-> FALSE,
                           errorText |-> "skipped: Missing env: ETHORA_XMPP_ADMIN_PASSWORD"]]
    /\ UNCHANGED <<sess, notEcho>>

\* Lines 378-379: the account whose ensureXmppUser is awaited; its result is
\* stored in details.user1Ensure / details.user2Ensure.
EnsuredUser == IF echo.pc \in {"register1", "change1"} THEN "user1" ELSE "user2"

\* The next administrative call is issued with its deadline.
EchoCall(e, pc) ==
    [e EXCEPT !.pc = pc,
              !.deadlines = @ + StageDeadline(pc, e.timeoutMs),
              !.calls = Append(@, CallAt(pc))]

\* Lines 378-389: ensureXmppUser returned { ok: true, via }; the next account
\* is ensured, or the room is destroyed.
EchoEnsured(e) ==
    EchoCall([e EXCEPT !.ensured = @ \cup {EnsuredUser}],
             IF EnsuredUser = "user1" THEN "register2" ELSE "destroy")

\* ensureXmppUser, lines 250-262: the answer to /register.
EchoRegister(reg) ==
    /\ echo.pc \in {"register1", "register2"}
    /\ echo' =
         LET e == [echo EXCEPT !.reg = reg] IN
         IF reg.ok THEN EchoEnsured(e)
         ELSE IF looksLikeAlreadyExists(reg)
         THEN EchoCall(e, IF echo.pc = "register1" THEN "change1" ELSE "change2")
         ELSE EchoCatch(e, "XMPP_REGISTER_FAILED")
    /\ UNCHANGED <<sess, notEcho>>

\* ensureXmppUser, lines 264-269: the answer to /change_password.
EchoChangePassword(ch) ==
    /\ echo.pc \in {"change1", "change2"}
    /\ echo' =
         LET e == [echo EXCEPT !.ch = ch] IN
         IF ch.ok THEN EchoEnsured(e)
         ELSE EchoCatch(e, "XMPP_CHANGE_PASSWORD_FAILED")
    /\ UNCHANGED <<sess, notEcho>>

\* Lines 389-396: /destroy_room answered (its result is ignored), the admin
\* join is started.
EchoDestroyRoom ==
    /\ echo.pc = "destroy"
    /\ echo' = [echo EXCEPT !.pc = "adminJoin",
                        !.deadlines = @ + StageDeadline("adminJoin", echo.timeoutMs)]
    /\ sess' = [sess EXCEPT !["admin"] = joinStarted(StageOf("admin"))]
    /\ UNCHANGED notEcho

\* The admin's client is stopped as soon as its join has created the room.
EchoAfterAdminJoin_stopsAdmin ==
    /\ echo.pc = "adminJoin"
    /\ sess["admin"].promise # "pending"
    /\ IF sess["admin"].promise = "resolved"
       THEN /\ echo' = [echo EXCEPT !.pc = "user2Join",
                        !.deadlines = @ + StageDeadline("user2Join", echo.timeoutMs), !.held = @ \cup {"admin"}]
            /\ sess' = [sess EXCEPT !["admin"] = stop(@),
                                    !["user2"] = joinStarted(StageOf("user2"))]
       ELSE /\ echo' = EchoCatch(echo, sess["admin"].err)
            /\ UNCHANGED sess
    /\ UNCHANGED notEcho

\* Lines 396-401: the admin join settled.
EchoAfterAdminJoin ==
    /\ echo.pc = "adminJoin"
    /\ sess["admin"].promise # "pending"
    /\ IF sess["admin"].promise = "resolved"
       THEN /\ echo' = [echo EXCEPT !.pc = "user2Join",
                        !.deadlines = @ + StageDeadline("user2Join", echo.timeoutMs), !.held = @ \cup {"admin"}]
            /\ sess' = [sess EXCEPT !["user2"] = joinStarted(StageOf("user2"))]
       ELSE /\ echo' = EchoCatch(echo, sess["admin"].err)
            /\ UNCHANGED sess
    /\ UNCHANGED notEcho

\* The join of user1 is started without the marker listener on user2.
EchoAfterUser2Join_noListener ==
    /\ echo.pc = "user2Join"
    /\ sess["user2"].promise # "pending"
    /\ IF sess["user2"].promise = "resolved"
       THEN /\ echo' = [echo EXCEPT !.pc = "user1Join",
                        !.deadlines = @ + StageDeadline("user1Join", echo.timeoutMs), !.held = @ \cup {"user2"},
                                    !.receivedPromise = "pending"]
            /\ sess' = [sess EXCEPT !["user1"] = joinStarted(StageOf("user1"))]
       ELSE /\ echo' = EchoCatch(echo, sess["user2"].err)
            /\ UNCHANGED sess
    /\ UNCHANGED notEcho

\* The marker is sent without waiting for the sender's join.
EchoAfterUser2Join_sendsAtOnce ==
    /\ echo.pc = "user2Join"
    /\ sess["user2"].promise # "pending"
    /\ IF sess["user2"].promise = "resolved"
       THEN /\ echo' = [echo EXCEPT !.pc = "user1Join",
                        !.deadlines = @ + StageDeadline("user1Join", echo.timeoutMs), !.held = @ \cup {"user2"},
                                    !.msgHandler = TRUE, !.receivedPromise = "pending",
                                    !.markerSent = TRUE]
            /\ sess' = [sess EXCEPT !["user1"] = joinStarted(StageOf("user1"))]
       ELSE /\ echo' = EchoCatch(echo, sess["user2"].err)
            /\ UNCHANGED sess
    /\ UNCHANGED notEcho

\* Lines 401-423: the join of user2 settled; the marker listener is attached
\* to it and the join of user1 is started.
EchoAfterUser2Join ==
    /\ echo.pc = "user2Join"
    /\ sess["user2"].promise # "pending"
    /\ IF sess["user2"].promise = "resolved"
       THEN /\ echo' = [echo EXCEPT !.pc = "user1Join",
                        !.deadlines = @ + StageDeadline("user1Join", echo.timeoutMs), !.held = @ \cup {"user2"},
                                    !.msgHandler = TRUE, !.receivedPromise = "pending"]
            /\ sess' = [sess EXCEPT !["user1"] = joinStarted(StageOf("user1"))]
       ELSE /\ echo' = EchoCatch(echo, sess["user2"].err)
            /\ UNCHANGED sess
    /\ UNCHANGED notEcho

\* Lines 423-431: the join of user1 settled; the marker is sent and the echo
\* is awaited against the echo deadline.
EchoAfterUser1Join ==
    /\ echo.pc = "user1Join"
    /\ sess["user1"].promise # "pending"
    /\ echo' =
         IF sess["user1"].promise = "resolved"
         THEN [echo EXCEPT !.pc = "awaitEcho",
                        !.deadlines = @ + StageDeadline("awaitEcho", echo.timeoutMs), !.held = @ \cup {"user1"},
                           !.markerSent = TRUE,
                           !.race = IF echo.receivedPromise = "resolved"
                                    THEN "resolved" ELSE "pending"]
         ELSE EchoCatch(echo, sess["user1"].err)
    /\ UNCHANGED <<sess, notEcho>>

\* A messageHandler that does not compare the body with the marker.
messageMatches_anyBody(st) ==
    /\ st.kind = "message"
    /\ st.type = "groupchat"
    /\ st.from = "room"

\* Lines 405-418: messageHandler.
messageMatches(st) ==
    /\ st.kind = "message"
    /\ st.type = "groupchat"
    /\ st.from = "room"
    /\ st.body = "marker"

\* A stanza arrives on the client of user2 while messageHandler is attached.
\* The marker exists only once it has been sent.
EchoMessage(st) ==
    /\ ~EchoReady
    /\ echo.msgHandler
    /\ sess["user2"].conn = "online"
    /\ st.kind = "message"
    /\ st.body = "marker" => echo.markerSent
    /\ echo' =
         IF messageMatches(st)
         THEN [echo EXCEPT !.received = TRUE,
                  !.receivedPromise = "resolved",
                  !.race = IF @ = "pending" THEN "resolved" ELSE @]
         ELSE echo
    /\ UNCHANGED <<sess, notEcho>>

\* Line 430: the echo deadline.
EchoTimeout ==
    /\ ~EchoReady
    /\ echo.pc = "awaitEcho"
    /\ echo.race = "pending"
    /\ echo' = [echo EXCEPT !.race = "rejected"]
    /\ UNCHANGED <<sess, notEcho>>

\* Lines 428-438: the race settled.
EchoAfterAwait ==
    /\ echo.pc = "awaitEcho"
    /\ echo.race # "pending"
    /\ echo' =
         IF echo.race = "resolved"
         THEN [echo EXCEPT !.pc = "finally", !.result = [ok |-> TRUE, errorText |-> ""]]
         ELSE EchoCatch(echo, "XMPP_ECHO_TIMEOUT")
    /\ UNCHANGED <<sess, notEcho>>

\* Lines 439-445: the finally block stops the clients the function holds.
EchoFinally ==
    /\ echo.pc = "finally"
    /\ echo' = [echo EXCEPT !.pc = "returned", !.msgHandler = FALSE]
    /\ sess' = [s \in SessionIds |->
                  IF s \in echo.held THEN stop(sess[s]) ELSE sess[s]]
    /\ UNCHANGED notEcho

\* Events of the clients of this check.
EchoJoinOnline(s) ==
    /\ ~EchoReady
    /\ sess[s].conn = "starting"
    /\ sess' = [sess EXCEPT ![s] = onOnline(@)]
    /\ UNCHANGED <<echo, notEcho>>

EchoJoinStartRejected(s) ==
    /\ ~EchoReady
    /\ sess[s].conn = "starting"
    /\ sess' = [sess EXCEPT ![s] = onStartRejected(@)]
    /\ UNCHANGED <<echo, notEcho>>

EchoJoinError(s) ==
    /\ ~EchoReady
    /\ IsOpen(sess[s])
    /\ sess' = [sess EXCEPT ![s] = onError(@)]
    /\ UNCHANGED <<echo, notEcho>>

EchoJoinStanza(s, st) ==
    /\ ~EchoReady
    /\ sess[s].conn = "online"
    /\ sess[s].handler
    /\ st.body = "other"
    /\ sess' = [sess EXCEPT ![s] = stanzaHandler(@, st)]
    /\ UNCHANGED <<echo, notEcho>>

EchoJoinTimeout(s) ==
    /\ ~EchoReady
    /\ sess[s].timer
    /\ sess' = [sess EXCEPT ![s] = onJoinTimeout(@)]
    /\ UNCHANGED <<echo, notEcho>>

InitEcho ==
    /\ sess = [s \in SessionIds |-> NoSession]
    /\ echo = EchoInit

NextEcho ==
    \/ \E b \in BOOLEAN, ms \in CheckTimeouts : EchoStart(b, ms)
    \/ \E r \in ApiResponses : EchoRegister(r)
    \/ \E r \in ApiResponses : EchoChangePassword(r)
    \/ EchoDestroyRoom
    \/ EchoAfterAdminJoin
    \/ EchoAfterUser2Join
    \/ EchoAfterUser1Join
    \/ \E st \in Stanzas : EchoMessage(st)
    \/ EchoTimeout
    \/ EchoAfterAwait
    \/ EchoFinally
    \/ \E s \in EchoSessions : EchoJoinOnline(s)
    \/ \E s \in EchoSessions : EchoJoinStartRejected(s)
    \/ \E s \in EchoSessions : EchoJoinError(s)
    \/ \E s \in EchoSessions, st \in Stanzas : EchoJoinStanza(s, st)
    \/ \E s \in EchoSessions : EchoJoinTimeout(s)

\* ------------------------------------------------------------------------
\* checker.ts: runCheckWithOpts and the http / wss strategies.
\* ------------------------------------------------------------------------

\* JSON values, tagged: a string, null, undefined or an object.
Str(v) == [t |-> "str", v |-> v, get |-> <<>>]

Null == [t |-> "null", v |-> "", get |-> <<>>]

Undef == [t |-> "undef", v |-> "", get |-> <<>>]

Obj(f) == [t |-> "obj", v |-> "", get |-> f]

\* cur[p] of getJsonPath, line 454.
Member(cur, p) ==
    IF cur.t = "obj" /\ p \in DOMAIN cur.get THEN cur.get[p] ELSE Undef

\* getJsonPath, lines 448-457; path is the dot path split into its segments.
RECURSIVE getJsonPath(_, _)
getJsonPath(cur, path) ==
    IF path = <<>> THEN cur
    ELSE IF cur.t \in {"null", "undef"} THEN Undef
    ELSE getJsonPath(Member(cur, Head(path)), Tail(path))

\* String(value), line 97.
StringOf(value) ==
    CASE value.t = "str" -> value.v
      [] value.t = "null" -> "null"
      [] value.t = "undef" -> "undefined"
      [] OTHER -> "[object Object]"

\* The response bodies of the model: "unparsable" or a parsed document.
Docs ==
    {Obj([a |-> Obj([b |-> Str("x")])]),
     Obj([a |-> Obj([b |-> Null])]),
     Obj([a |-> Str("x")])}

Bodies == Docs \cup {Str("unparsable")}

NoEquals == "<undefined>"

StatusRule(expected) ==
    [type |-> "status_code", expected |-> expected, path |-> <<>>,
     exists |-> FALSE, equals |-> NoEquals, captureAs |-> ""]

JsonRule(path, exists, equals, captureAs) ==
    [type |-> "json", expected |-> {}, path |-> path,
     exists |-> exists, equals |-> equals, captureAs |-> captureAs]

\* The expectation rules of the model.
Rules ==
    {StatusRule({200}), StatusRule({200, 404}),
     JsonRule(<<"a", "b">>, TRUE, NoEquals, ""),
     JsonRule(<<"a", "b">>, FALSE, "x", "v"),
     JsonRule(<<"a">>, FALSE, NoEquals, "v")}

\* Longest list of expectation rules of a check.
MaxRules == 2

RuleSeqs == UNION {[1..n -> Rules] : n \in 0..MaxRules}

Statuses == {200, 204, 404, 500}

NoDetails == [statusExpected |-> {}, jsonParse |-> "", captures |-> <<>>]

\* A json rule captures only when its assertions hold.
applyRule_capturesWhenHolds(acc, rule, statusCode, jsonParsedOk, parsedJson) ==
    LET ok == acc[1]
        details == acc[2]
        value == getJsonPath(parsedJson, rule.path)
        holds == /\ rule.exists => value.t \notin {"undef", "null"}
                 /\ rule.equals # NoEquals => StringOf(value) = rule.equals
    IN  IF rule.type = "status_code"
        THEN <<ok /\ statusCode \in rule.expected,
               [details EXCEPT !.statusExpected = rule.expected]>>
        ELSE IF ~jsonParsedOk
        THEN <<IF rule.exists \/ rule.equals # NoEquals THEN FALSE ELSE ok,
               [details EXCEPT !.jsonParse = "failed"]>>
        ELSE <<ok /\ holds,
               IF rule.captureAs # "" /\ holds
               THEN [details EXCEPT !.captures =
                        [k \in DOMAIN details.captures \cup {rule.captureAs} |->
                            IF k = rule.captureAs
                            THEN (IF value.t = "undef" THEN Null ELSE value)
                            ELSE details.captures[k]]]
               ELSE details>>

\* An unparsable body fails every json rule, capture-only rules included.
applyRule_parseFailureFailsAll(acc, rule, statusCode, jsonParsedOk, parsedJson) ==
    IF rule.type = "status_code"
    THEN <<acc[1] /\ statusCode \in rule.expected,
           [acc[2] EXCEPT !.statusExpected = rule.expected]>>
    ELSE <<acc[1] /\ jsonParsedOk, [acc[2] EXCEPT !.jsonParse = "failed"]>>

\* A status_code rule that sets ok instead of narrowing it.
applyRule_statusSetsOk(acc, rule, statusCode, jsonParsedOk, parsedJson) ==
    IF rule.type = "status_code"
    THEN <<statusCode \in rule.expected,
           [acc[2] EXCEPT !.statusExpected = rule.expected]>>
    ELSE acc

\* Lines 83-103: one pass of the loop over expect.  acc is <<ok, details>>.
applyRule(acc, rule, statusCode, jsonParsedOk, parsedJson) ==
    LET ok == acc[1]
        details == acc[2]
        value == getJsonPath(parsedJson, rule.path)
    IN  IF rule.type = "status_code"
        THEN <<ok /\ statusCode \in rule.expected,
               [details EXCEPT !.statusExpected = rule.expected]>>
        ELSE IF ~jsonParsedOk
        THEN <<IF rule.exists \/ rule.equals # NoEquals THEN FALSE ELSE ok,
               [details EXCEPT !.jsonParse = "failed"]>>
        ELSE <<ok /\ (rule.exists => value.t \notin {"undef", "null"})
                  /\ (rule.equals # NoEquals => StringOf(value) = rule.equals),
               IF rule.captureAs # ""
               THEN [details EXCEPT !.captures =
                        [k \in DOMAIN details.captures \cup {rule.captureAs} |->
                            IF k = rule.captureAs
                            THEN (IF value.t = "undef" THEN Null ELSE value)
                            ELSE details.captures[k]]]
               ELSE details>>

RECURSIVE evalRules(_, _, _, _, _)
evalRules(acc, rules, statusCode, jsonParsedOk, parsedJson) ==
    IF rules = <<>> THEN acc
    ELSE evalRules(applyRule(acc, Head(rules), statusCode, jsonParsedOk, parsedJson),
                   Tail(rules), statusCode, jsonParsedOk, parsedJson)

hasJsonRules(expect) == \E i \in DOMAIN expect : expect[i].type = "json"

\* Lines 62-105: the result of an http check once the response (and, when a
\* json rule needs it, its body) has been read.
httpResult(expect, statusCode, body) ==
    LET jsonParsedOk == hasJsonRules(expect) /\ body \in Docs
        parsedJson == IF jsonParsedOk THEN body ELSE Undef
        out == evalRules(<<statusCode \in 200..299, NoDetails>>,
                         expect, statusCode, jsonParsedOk, parsedJson)
    IN  [ok |-> out[1], statusCode |-> statusCode, errorText |-> "",
         details |-> out[2]]

\* A result without status code and details (the catch blocks and the
\* early returns).
Failure(text) ==
    [ok |-> FALSE, statusCode |-> 0, errorText |-> text, details |-> NoDetails]

CheckTypes == {"http", "wss", "journey", "xmpp_muc_echo", "tcp"}

\* url: absent, present but not a URL, or a URL.
Urls == {"", "not a url", "wss://host/ws"}

Checks ==
    [type : {"http"}, url : Urls, expect : RuleSeqs]
    \cup [type : CheckTypes \ {"http"}, url : Urls, expect : {<<>>}]

\*   pc       "idle" | "fetch" | "body" | "socket" | "journey" | "echo" | "done"
\*   outcome  of the promise runCheckWithOpts returned
\*   timer    the abort timer (http) or the timeout timer (wss) is armed
\*   ws       "none" | "connecting" | "open" | "closed"
\*   closeRequested  ws.close() was called
\*   settled  the flag of runWssCheck, line 123
\*   statusCode, body   resp.status and the text read for the json rules
\*   aborted  controller.signal.aborted, line 53
ExecIdle ==
    [pc |-> "idle", chk |-> [type |-> "none", url |-> "", expect |-> <<>>],
     outcome |-> "none", result |-> Failure("none"), timer |-> FALSE,
     statusCode |-> 0, body |-> Undef, aborted |-> FALSE,
     ws |-> "none", closeRequested |-> FALSE,
     settled |-> FALSE]

\* The promise of runCheckWithOpts resolves with res.
Resolved(e, res) == [e EXCEPT !.pc = "done", !.outcome = "resolved", !.result = res]

\* new WebSocket(url, ...), line 137: the ws constructor throws a SyntaxError
\* for an address that is not a ws(s) URL.
WebSocketThrows(url) == url = "not a url"

\* Lines 31-45, and the synchronous part of the strategy that is called.
RunCheckWithOpts(chk) ==
    /\ ex.pc = "idle"
    /\ ex' =
        LET e == [ex EXCEPT !.chk = chk, !.outcome = "pending"] IN
        CASE chk.type = "http" ->
               IF chk.url = ""
               THEN Resolved(e, Failure("missing url for http check"))
               ELSE [e EXCEPT !.pc = "fetch", !.timer = TRUE]
          [] chk.type = "wss" ->
               IF chk.url = ""
               THEN Resolved(e, Failure("missing url for wss check"))
               ELSE IF WebSocketThrows(chk.url)
               \* the executor of line 122 throws after arming the timer
               THEN [e EXCEPT !.pc = "done", !.outcome = "rejected", !.timer = TRUE]
               ELSE [e EXCEPT !.pc = "socket", !.timer = TRUE, !.ws = "connecting"]
          [] chk.type = "journey" -> [e EXCEPT !.pc = "journey"]
          [] chk.type = "xmpp_muc_echo" -> [e EXCEPT !.pc = "echo"]
          [] OTHER -> Resolved(e, Failure("Unknown check type"))
    /\ UNCHANGED notExec

\* Lines 56-63: fetch resolved with a response.
HttpResponse(statusCode, body) ==
    /\ ex.pc = "fetch"
    /\ ex.chk.url # "not a url"
    /\ ex' = IF hasJsonRules(ex.chk.expect)
             THEN [ex EXCEPT !.pc = "body", !.statusCode = statusCode]
             ELSE [Resolved(ex, httpResult(ex.chk.expect, statusCode, body))
                      EXCEPT !.timer = FALSE, !.statusCode = statusCode]
    /\ UNCHANGED notExec

\* Lines 73-105: the body was read.
HttpBody(body) ==
    /\ ex.pc = "body"
    /\ ex' = [Resolved(ex, httpResult(ex.chk.expect, ex.statusCode, body))
                 EXCEPT !.timer = FALSE, !.body = body]
    /\ UNCHANGED notExec

\* A catch block that reports the AbortError by its message like any other
\* error.
HttpAbort_byMessage ==
    /\ ex.pc \in {"fetch", "body"}
    /\ ex.timer
    /\ ex.chk.url # "not a url"
    /\ ex' = [Resolved(ex, Failure("This operation was aborted"))
                 EXCEPT !.timer = FALSE, !.aborted = TRUE]
    /\ UNCHANGED notExec

\* Line 53 and lines 106-111: the timer aborts the request; fetch (or the
\* read of the body) rejects with an AbortError.
HttpAbort ==
    /\ ex.pc \in {"fetch", "body"}
    /\ ex.timer
    /\ ex.chk.url # "not a url"
    /\ ex' = [Resolved(ex, Failure("timeout")) EXCEPT !.timer = FALSE, !.aborted = TRUE]
    /\ UNCHANGED notExec

\* Lines 106-111: fetch (or the read of the body) rejects with another error.
HttpError ==
    /\ ex.pc \in {"fetch", "body"}
    /\ ex' = [Resolved(ex, Failure("fetch failed")) EXCEPT !.timer = FALSE]
    /\ UNCHANGED notExec

\* finish, lines 124-128.
finish(e, res) ==
    IF e.settled THEN e
    ELSE [e EXCEPT !.settled = TRUE,
             !.pc = "done",
             !.outcome = IF @ = "pending" THEN "resolved" ELSE @,
             !.result = IF e.outcome = "pending" THEN res ELSE @]

\* Lines 141-147: 'open'.
WsOpen ==
    /\ ex.ws = "connecting"
    /\ ~ex.closeRequested
    /\ ex' = finish([ex EXCEPT !.ws = "open", !.timer = FALSE, !.closeRequested = TRUE],
                    [Failure("") EXCEPT !.ok = TRUE])
    /\ UNCHANGED notExec

\* Lines 149-152: 'error'.
WsError ==
    /\ ex.ws \in {"connecting", "open"}
    /\ ex' = finish([ex EXCEPT !.ws = "closed", !.timer = FALSE], Failure("socket error"))
    /\ UNCHANGED notExec

\* Lines 130-135: the timeout timer.  When the constructor threw, ws is not
\* initialised and ws.close() throws inside the try.
WsTimeout ==
    /\ ex.chk.type = "wss"
    /\ ex.timer
    /\ ex' = finish([ex EXCEPT !.timer = FALSE,
                               !.closeRequested = (ex.ws # "none")],
                    Failure("timeout"))
    /\ UNCHANGED notExec

\* Lines 156-175: runJourneyCheck turns every outcome of the race, and a
\* missing environment variable, into a result.
JourneyReturns(outcome) ==
    /\ ex.pc = "journey"
    /\ ex' = Resolved(ex,
               CASE outcome = "ok" -> [Failure("") EXCEPT !.ok = TRUE]
                 [] outcome = "failed" -> Failure("")
                 [] outcome = "missing env" -> Failure("skipped: Missing env")
                 [] OTHER -> Failure("timeout"))
    /\ UNCHANGED notExec

\* Lines 331-446: runXmppMucEchoCheck returns a result from its try, its
\* catch or the early return of line 347.
EchoReturns(outcome) ==
    /\ ex.pc = "echo"
    /\ ex' = Resolved(ex,
               CASE outcome = "ok" -> [Failure("") EXCEPT !.ok = TRUE]
                 [] outcome = "missing env" -> Failure("skipped: Missing env")
                 [] OTHER -> Failure("error"))
    /\ UNCHANGED notExec

InitExec == ex = ExecIdle

NextExec ==
    \/ \E chk \in Checks : RunCheckWithOpts(chk)
    \/ \E st \in Statuses, b \in Bodies : HttpResponse(st, b)
    \/ \E b \in Bodies : HttpBody(b)
    \/ HttpAbort
    \/ HttpError
    \/ WsOpen
    \/ WsError
    \/ WsTimeout
    \/ \E o \in {"ok", "failed", "missing env", "timeout"} : JourneyReturns(o)
    \/ \E o \in {"ok", "failed", "missing env"} : EchoReturns(o)

\* ------------------------------------------------------------------------
\* journeyRunner.ts: runJourney (basic, lines 318-502) and
\* runJourneyAdvanced (lines 583-939).
\*   mode, pc      the mode run and the call it is suspended in
\*   usersCount    the number of users the loop creates; i its index
\*   observerRoom  an observer room is configured
\*   xmppEnv       ETHORA_XMPP_SERVICE and ETHORA_XMPP_HOST are set
\*   users         createdUserIds / users; xmppNames: createdUserXmpp
\*   chats         the chat names held: chatName, testChatName, validationChatName
\*   xmppClients   the list of line 603
\*   steps         details.steps; result: what the try or the catch returns
\* ------------------------------------------------------------------------
JourneyIdle ==
    [mode |-> "none", pc |-> "idle", usersCount |-> 0, i |-> 0,
     observerRoom |-> FALSE, xmppEnv |-> FALSE,
     ownerUserToken |-> FALSE, newAppId |-> FALSE, newAppToken |-> FALSE,
     users |-> {}, xmppNames |-> {}, chatOwnerToken |-> FALSE, chats |-> {},
     xmppClients |-> <<>>, steps |-> <<>>,
     result |-> [ok |-> FALSE, error |-> "none"]]

\* The platform: the application, the users and the chats that exist, and
\* the cleanup requests received.
PlatformInit == [app |-> FALSE, users |-> {}, chats |-> {}, requests |-> <<>>]

NoWait ==
    [on |-> "none", match |-> "", state |-> "none", handler |-> FALSE,
     timer |-> FALSE]

JourneyCheckIdle == [pc |-> "idle", result |-> [ok |-> FALSE, errorText |-> "none"]]

\* Line 716: the advanced run creates at least three users.
MinAdvancedUsers == 3


Range(f) == {f[x] : x \in DOMAIN f}

step(j, name) == [j EXCEPT !.steps = Append(@, name)]

\* The finally block with the application deleted before the users.
CleanupStages_appBeforeUsers(mode) ==
    IF mode = "basic"
    THEN <<"cleanup_delete_chat", "cleanup_delete_app", "cleanup_delete_users">>
    ELSE <<"cleanup_delete_test_chat", "cleanup_delete_validation_chat",
           "cleanup_delete_app", "cleanup_delete_users">>

\* The names of the cleanup steps of the finally block, in its order.
CleanupStages(mode) ==
    IF mode = "basic"
    THEN <<"cleanup_delete_chat", "cleanup_delete_users", "cleanup_delete_app">>
    ELSE <<"cleanup_delete_test_chat", "cleanup_delete_validation_chat",
           "cleanup_delete_users", "cleanup_delete_app">>

\* The chat a cleanup step deletes.
ChatOf(name) ==
    CASE name = "cleanup_delete_chat" -> "chat"
      [] name = "cleanup_delete_test_chat" -> "test"
      [] name = "cleanup_delete_validation_chat" -> "validation"
      [] OTHER -> "none"

\* The conditions of the finally block: lines 471, 483, 495 (basic) and
\* 909, 915, 921, 932 (advanced).
CleanupApplies(j, name) ==
    CASE name = "cleanup_delete_chat" -> "chat" \in j.chats /\ j.chatOwnerToken
      [] name = "cleanup_delete_test_chat" -> "test" \in j.chats /\ 0 \in j.users
      [] name = "cleanup_delete_validation_chat" ->
            "validation" \in j.chats /\ 0 \in j.users
      [] name = "cleanup_delete_users" ->
            j.newAppId /\ j.ownerUserToken /\ j.users # {}
      [] OTHER -> j.newAppId /\ j.ownerUserToken

\* The first cleanup step at or after position k whose condition holds; 0 when
\* there is none.
RECURSIVE nextCleanup(_, _)
nextCleanup(j, k) ==
    IF k > Len(CleanupStages(j.mode)) THEN 0
    ELSE IF CleanupApplies(j, CleanupStages(j.mode)[k]) THEN k
    ELSE nextCleanup(j, k + 1)

\* The finally block from position k on: the next applicable cleanup request
\* is recorded and sent, or the function returns.  The value is <<jr, plat>>.
enterCleanup(j, p, k) ==
    LET n == nextCleanup(j, k) IN
    IF n = 0 THEN <<[j EXCEPT !.pc = "returned"], p>>
    ELSE LET name == CleanupStages(j.mode)[n] IN
         <<[step(j, name) EXCEPT !.pc = name],
           [p EXCEPT !.requests =
               Append(@, [op |-> name,
                          users |-> IF name = "cleanup_delete_users"
                                    THEN j.users ELSE {}])]>>

\* The position of the cleanup step the run is suspended in.
CleanupIndex(j) ==
    CHOOSE k \in 1..Len(CleanupStages(j.mode)) : CleanupStages(j.mode)[k] = j.pc

\* Lines 905-908: the clients of xmppClients are stopped.
stopClients(ss, clients) ==
    [s \in SessionIds |-> IF s \in Range(clients) THEN stop(ss[s]) ELSE ss[s]]

\* The try block is left, by its return (ok) or through the catch (the error
\* is recorded), and the finally block starts.  The value is <<jr, plat>>.
leaveTry(j, p, ok, error) ==
    enterCleanup([step(j, IF ok THEN "ok" ELSE "error")
                     EXCEPT !.result = [ok |-> ok, error |-> error]],
                 p, 1)

\* The next state of jr, plat and sess when the try block is left.
Leave(j, p, ok, error) ==
    /\ jr' = leaveTry(j, p, ok, error)[1]
    /\ plat' = leaveTry(j, p, ok, error)[2]
    /\ sess' = stopClients(sess, j.xmppClients)

Throw(error) == Leave(jr, plat, FALSE, error)

\* The step moves on to pc, recording the step name.
Goto(j, pc, name) ==
    /\ jr' = [step(j, name) EXCEPT !.pc = pc]
    /\ UNCHANGED <<plat, sess>>

\* resolveMode, lines 286-293, applied to the mode candidate (the check id or
\* ETHORA_JOURNEY_MODE, lowercased).
ModeCandidates == {"", "journey", "journey-advanced", "comprehensive", "basic"}

resolveMode(value) ==
    IF value \in {"journey-advanced", "comprehensive"} THEN "advanced" ELSE "basic"

\* checker.ts 156-166 and journeyRunner.ts 318-351 / 583-627: the check reads
\* the environment, starts the run and races it against the deadline; the run
\* sends its first request.
RunJourneyCheck(envOk, candidate, n, observerRoom, xmppEnv) ==
    /\ jc.pc = "idle"
    /\ IF ~envOk
       THEN /\ jc' = [pc |-> "returned",
                      result |-> [ok |-> FALSE, errorText |-> "skipped: Missing env"]]
            /\ UNCHANGED jr
       ELSE /\ jc' = [jc EXCEPT !.pc = "racing"]
            /\ jr' = [step(JourneyIdle, "get_base_app_config") EXCEPT
                        !.mode = resolveMode(candidate),
                        !.pc = "config",
                        !.usersCount = IF resolveMode(candidate) = "advanced"
                                       THEN Max(MinAdvancedUsers, n) ELSE n,
                        !.observerRoom = observerRoom /\ resolveMode(candidate) = "advanced",
                        !.xmppEnv = xmppEnv]
    /\ UNCHANGED <<plat, sess, wait, notJourney>>

\* Lines 347-365 / 623-688: the answer to get-config.
JourneyConfig(resp) ==
    /\ jr.pc = "config"
    /\ CASE resp = "fail" -> Throw("get-config failed")
         [] resp = "nofield" -> Throw("get-config: missing appToken in response")
         [] OTHER ->
              IF jr.observerRoom
              THEN jr' = [jr EXCEPT !.pc = "observerLogin"] /\ UNCHANGED <<plat, sess>>
              ELSE Goto(jr, "adminLogin", "login_admin_user")
    /\ UNCHANGED <<wait, jc, notJourney>>

\* Lines 655-686: the answer to the observer's v2 login.  Whatever goes wrong
\* here is swallowed by the catch of line 684.
JourneyObserverLogin(resp) ==
    /\ jr.pc = "observerLogin"
    /\ IF resp = "ok" /\ jr.xmppEnv
       THEN /\ jr' = [jr EXCEPT !.pc = "observerJoin"]
            /\ sess' = [sess EXCEPT !["observer"] = joinStarted(StageOf("observer"))]
            /\ UNCHANGED plat
       ELSE Goto(jr, "adminLogin", "login_admin_user")
    /\ UNCHANGED <<wait, jc, notJourney>>

\* A rejected observer join is thrown to the catch of the run.
JourneyAfterObserverJoin_fatal ==
    /\ jr.pc = "observerJoin"
    /\ sess["observer"].promise # "pending"
    /\ IF sess["observer"].promise = "resolved"
       THEN /\ jr' = [step([jr EXCEPT !.xmppClients = Append(@, "observer")],
                           "login_admin_user") EXCEPT !.pc = "adminLogin"]
            /\ UNCHANGED <<plat, sess>>
       ELSE /\ jr' = leaveTry(jr, plat, FALSE, sess["observer"].err)[1]
            /\ plat' = leaveTry(jr, plat, FALSE, sess["observer"].err)[2]
            /\ UNCHANGED sess
    /\ UNCHANGED <<wait, jc, notJourney>>

\* Lines 670-688: the observer join settled.
JourneyAfterObserverJoin ==
    /\ jr.pc = "observerJoin"
    /\ sess["observer"].promise # "pending"
    /\ Goto(IF sess["observer"].promise = "resolved"
            THEN [jr EXCEPT !.xmppClients = Append(@, "observer")] ELSE jr,
            "adminLogin", "login_admin_user")
    /\ UNCHANGED <<wait, jc, notJourney>>

\* A login answer without a token does not stop the run.
JourneyAdminLogin_ignoresMissingToken(resp) ==
    /\ jr.pc = "adminLogin"
    /\ CASE resp = "fail" -> Throw("login-with-email failed")
         [] resp = "nofield" -> Goto(jr, "createApp", "create_app")
         [] OTHER -> Goto([jr EXCEPT !.ownerUserToken = TRUE], "createApp", "create_app")
    /\ UNCHANGED <<wait, jc, notJourney>>

\* Lines 366-377 / 689-700: the answer to the admin login.
JourneyAdminLogin(resp) ==
    /\ jr.pc = "adminLogin"
    /\ CASE resp = "fail" -> Throw("login-with-email failed")
         [] resp = "nofield" -> Throw("login-with-email: missing token")
         [] OTHER -> Goto([jr EXCEPT !.ownerUserToken = TRUE], "createApp", "create_app")
    /\ UNCHANGED <<wait, jc, notJourney>>

\* Lines 378-394 / 701-721: the answer to create app.  "notoken": the
\* application was created and its id returned, without an appToken.
JourneyCreateApp(resp) ==
    /\ jr.pc = "createApp"
    /\ CASE resp = "fail" -> Throw("create app failed")
         [] resp = "notoken" ->
              Leave([jr EXCEPT !.newAppId = TRUE], [plat EXCEPT !.app = TRUE],
                    FALSE, "create app: missing app.appToken")
         [] OTHER ->
              LET j == [jr EXCEPT !.newAppId = TRUE, !.newAppToken = TRUE]
                  p == [plat EXCEPT !.app = TRUE]
              IN  IF j.usersCount > 0
                  THEN /\ jr' = [step(j, "signup_user_v2") EXCEPT !.pc = "signup", !.i = 0]
                       /\ plat' = p
                       /\ UNCHANGED sess
                  ELSE Leave(j, p, FALSE, "login v2: missing token for first user")
    /\ UNCHANGED <<wait, jc, notJourney>>

\* Lines 397-412 / 722-730: the answer to sign-up: the user now exists.
JourneySignup(resp) ==
    /\ jr.pc = "signup"
    /\ IF resp = "ok"
       THEN /\ jr' = [step(jr, "login_user_v2") EXCEPT !.pc = "login"]
            /\ plat' = [plat EXCEPT !.users = @ \cup {jr.i}]
            /\ UNCHANGED sess
       ELSE Throw("signup v2 failed")
    /\ UNCHANGED <<wait, jc, notJourney>>

\* Lines 413-435 / 731-755: the answer to the user's login; only now the user
\* is recorded in createdUserIds / users.
JourneyLogin(resp, hasXmpp) ==
    /\ jr.pc = "login"
    /\ jr.mode = "advanced" => hasXmpp
    /\ CASE resp = "fail" -> Throw("login v2 failed")
         [] resp = "nofield" -> Throw("login v2: missing user or token")
         [] OTHER ->
              LET j == [jr EXCEPT !.users = @ \cup {jr.i},
                                  !.xmppNames = IF hasXmpp THEN @ \cup {jr.i} ELSE @,
                                  !.chatOwnerToken = (@ \/ jr.i = 0)]
              IN  IF jr.i + 1 < jr.usersCount
                  THEN Goto([j EXCEPT !.i = @ + 1], "signup", "signup_user_v2")
                  ELSE IF jr.mode = "basic"
                  THEN Goto(j, "createChat", "create_chat")
                  ELSE Goto(j, "createTest", "create_chat_test")
    /\ UNCHANGED <<wait, jc, notJourney>>

\* Lines 436-454: basic, the answer to create chat.
JourneyCreateChat(resp) ==
    /\ jr.pc = "createChat"
    /\ CASE resp = "fail" -> Throw("create chat failed")
         [] resp = "nofield" -> Throw("create chat: missing result.name")
         [] OTHER ->
              LET j == [jr EXCEPT !.chats = @ \cup {"chat"}]
                  p == [plat EXCEPT !.chats = @ \cup {"chat"}]
              IN  IF Cardinality(j.xmppNames) > 1
                  THEN /\ jr' = [step(j, "chat_add_user") EXCEPT !.pc = "addUser"]
                       /\ plat' = p
                       /\ UNCHANGED sess
                  ELSE Leave(j, p, TRUE, "")
    /\ UNCHANGED <<wait, jc, notJourney>>

\* Lines 455-465: basic, the answer to users-access.
JourneyAddUser(resp) ==
    /\ jr.pc = "addUser"
    /\ IF resp = "ok" THEN Leave(jr, plat, TRUE, "") ELSE Throw("add user failed")
    /\ UNCHANGED <<wait, jc, notJourney>>

\* A cleanup request that fails ends the finally block and fails the run.
JourneyCleanupResponse_fatal(deleted) ==
    /\ jr.pc \in Range(CleanupStages(jr.mode))
    /\ IF deleted
       THEN LET p == CASE jr.pc = "cleanup_delete_users" ->
                            [plat EXCEPT !.users = @ \ jr.users]
                       [] jr.pc = "cleanup_delete_app" -> [plat EXCEPT !.app = FALSE]
                       [] OTHER -> [plat EXCEPT !.chats = @ \ {ChatOf(jr.pc)}]
                out == enterCleanup(jr, p, CleanupIndex(jr) + 1)
            IN  jr' = out[1] /\ plat' = out[2]
       ELSE /\ jr' = [jr EXCEPT !.pc = "returned",
                                !.result = [ok |-> FALSE, error |-> "cleanup failed"]]
            /\ UNCHANGED plat
    /\ UNCHANGED <<sess, wait, jc, notJourney>>

\* Lines 469-501 / 909-938: a cleanup request was answered, or failed; the
\* outcome is not looked at and the next cleanup step follows.
JourneyCleanupResponse(deleted) ==
    /\ jr.pc \in Range(CleanupStages(jr.mode))
    /\ LET p == IF ~deleted THEN plat
                ELSE CASE jr.pc = "cleanup_delete_users" ->
                            [plat EXCEPT !.users = @ \ jr.users]
                       [] jr.pc = "cleanup_delete_app" -> [plat EXCEPT !.app = FALSE]
                       [] OTHER -> [plat EXCEPT !.chats = @ \ {ChatOf(jr.pc)}]
           out == enterCleanup(jr, p, CleanupIndex(jr) + 1)
       IN  jr' = out[1] /\ plat' = out[2]
    /\ UNCHANGED <<sess, wait, jc, notJourney>>

\* Lines 755-766 / 768-779: advanced, the answer to create chat (Test, then
\* Validation).
JourneyCreateTest(resp) ==
    /\ jr.pc = "createTest"
    /\ CASE resp = "fail" -> Throw("create test chat failed")
         [] resp = "nofield" -> Throw("create test chat: missing result.name")
         [] OTHER ->
              /\ jr' = [step([jr EXCEPT !.chats = @ \cup {"test"}],
                             "create_chat_validation") EXCEPT !.pc = "createValidation"]
              /\ plat' = [plat EXCEPT !.chats = @ \cup {"test"}]
              /\ UNCHANGED sess
    /\ UNCHANGED <<wait, jc, notJourney>>

JourneyCreateValidation(resp) ==
    /\ jr.pc = "createValidation"
    /\ CASE resp = "fail" -> Throw("create validation chat failed")
         [] resp = "nofield" -> Throw("create validation chat: missing result.name")
         [] OTHER ->
              /\ jr' = [step([jr EXCEPT !.chats = @ \cup {"validation"}],
                             "add_members_test") EXCEPT !.pc = "addTest"]
              /\ plat' = [plat EXCEPT !.chats = @ \cup {"validation"}]
              /\ UNCHANGED sess
    /\ UNCHANGED <<wait, jc, notJourney>>

\* Lines 781-789: the answer to users-access for the Test room.
JourneyAddTest(resp) ==
    /\ jr.pc = "addTest"
    /\ IF resp = "ok" THEN Goto(jr, "addValidation", "add_members_validation")
       ELSE Throw("add test members failed")
    /\ UNCHANGED <<wait, jc, notJourney>>

\* Lines 791-804: the answer to users-access for the Validation room; then
\* getXmppEnvFromProcess, which throws without the XMPP settings, and the join
\* of Bob to the Test room.
JourneyAddValidation(resp) ==
    /\ jr.pc = "addValidation"
    /\ IF resp # "ok" THEN Throw("add validation members failed")
       ELSE IF ~jr.xmppEnv THEN Throw("Missing env: ETHORA_XMPP_SERVICE")
       ELSE /\ jr' = [step(jr, "xmpp_join_test") EXCEPT !.pc = "joinBobTest"]
            /\ sess' = [sess EXCEPT !["bobTest"] = joinStarted(StageOf("bobTest"))]
            /\ UNCHANGED plat
    /\ UNCHANGED <<wait, jc, notJourney>>

\* journeyRunner.ts 530-541: stanzaHandler of the journey's joinRoomByWs.  A
\* presence of type error from the room rejects the join; the client is not
\* stopped.
journeyStanzaHandler(x, st) ==
    IF st.kind # "presence" THEN x
    ELSE IF st.from # "room" THEN x
    ELSE IF st.type = "error" THEN rejectTagged(cleanup(x), "XMPP_JOIN_ERROR")
    ELSE settle(cleanup(x), "resolved", "")

\* The join a suspended run awaits.
JoinPcs ==
    {"observerJoin", "joinBobTest", "joinAliceTest", "joinBobVal", "joinAliceVal",
     "rejoin"}

JoinOf(pc) ==
    CASE pc = "observerJoin" -> "observer"
      [] pc = "joinBobTest" -> "bobTest"
      [] pc = "joinAliceTest" -> "aliceTest"
      [] pc = "joinBobVal" -> "bobValidation"
      [] pc = "joinAliceVal" -> "aliceValidation"
      [] OTHER -> "bobRejoin"

WaitPcs == {"waitTestMsg", "waitValMsg", "waitMedia"}

\* A continuation is ready to run: the awaited promise has settled.
JourneyReady ==
    \/ jr.pc \in JoinPcs /\ sess[JoinOf(jr.pc)].promise # "pending"
    \/ jr.pc \in WaitPcs /\ wait.state \in {"resolved", "rejected"}
    \/ jc.pc = "racing" /\ jr.pc = "returned"

\* Lines 559-581: waitForRoomMessage(xmpp, roomJid, bodyMatch, timeoutMs) arms
\* its timer and attaches onStanza.
waitForRoomMessage(s, bodyMatch) ==
    [on |-> s, match |-> bodyMatch, state |-> "pending", handler |-> TRUE,
     timer |-> TRUE]

\* The stanzas delivered to a client that waits for a room message.
MessageStanzas ==
    [kind : {"presence", "message"}, type : {"", "groupchat"},
     from : {"room", "other"}, body : {"marker", "media", "other"},
     id : {"marker", "media", "other"}, attachments : BOOLEAN]

\* Lines 562-573: the condition under which onStanza resolves.
onStanzaMatches(st, bodyMatch) ==
    /\ st.kind = "message"
    /\ st.type = "groupchat"
    /\ st.from = "room"
    /\ \/ st.body = bodyMatch
       \/ st.id = bodyMatch
       \/ bodyMatch = "media" /\ (st.id = "media" \/ st.attachments)

\* Lines 805-806, 821-823: the join of Bob settled; Alice joins next.  Bob's
\* client is held in a local constant only.
JourneyAfterBobJoin ==
    /\ jr.pc \in {"joinBobTest", "joinBobVal"}
    /\ sess[JoinOf(jr.pc)].promise # "pending"
    /\ IF sess[JoinOf(jr.pc)].promise = "rejected"
       THEN Throw(sess[JoinOf(jr.pc)].err) /\ UNCHANGED wait
       ELSE LET next == IF jr.pc = "joinBobTest" THEN "joinAliceTest" ELSE "joinAliceVal"
            IN  /\ jr' = [jr EXCEPT !.pc = next]
                /\ sess' = [sess EXCEPT ![JoinOf(next)] = joinStarted(StageOf(JoinOf(next)))]
                /\ UNCHANGED <<plat, wait>>
    /\ UNCHANGED <<jc, notJourney>>

\* Lines 806-819, 823-836: the join of Alice settled; both clients are pushed
\* to xmppClients, the wait for the marker is armed on Bob's client and Alice
\* sends the marker.
JourneyAfterAliceJoin ==
    /\ jr.pc \in {"joinAliceTest", "joinAliceVal"}
    /\ sess[JoinOf(jr.pc)].promise # "pending"
    /\ IF sess[JoinOf(jr.pc)].promise = "rejected"
       THEN Throw(sess[JoinOf(jr.pc)].err) /\ UNCHANGED wait
       ELSE LET test == jr.pc = "joinAliceTest"
                bob == IF test THEN "bobTest" ELSE "bobValidation"
            IN  /\ jr' = [step([jr EXCEPT !.xmppClients = @ \o <<bob, JoinOf(jr.pc)>>],
                               IF test THEN "send_test_message"
                               ELSE "send_validation_message")
                            EXCEPT !.pc = IF test THEN "waitTestMsg" ELSE "waitValMsg"]
                /\ wait' = waitForRoomMessage(bob, "marker")
                /\ UNCHANGED <<plat, sess>>
    /\ UNCHANGED <<jc, notJourney>>

\* Lines 818-823: the wait for the Test marker settled; Bob joins Validation.
JourneyAfterTestMessage ==
    /\ jr.pc = "waitTestMsg"
    /\ wait.state \in {"resolved", "rejected"}
    /\ IF wait.state = "rejected" THEN Throw("XMPP_MESSAGE_TIMEOUT")
       ELSE /\ jr' = [step(jr, "xmpp_join_validation") EXCEPT !.pc = "joinBobVal"]
            /\ sess' = [sess EXCEPT !["bobValidation"] = joinStarted(StageOf("bobValidation"))]
            /\ UNCHANGED plat
    /\ UNCHANGED <<wait, jc, notJourney>>

\* The media wait is not armed by the time the upload request is sent: the
\* wait of the Validation marker is still the current one.
armMediaWait_afterUpload == wait

\* Lines 839-840: the wait for the media message, armed on Bob's Test client.
armMediaWait == waitForRoomMessage("bobTest", "media")

\* Lines 835-854: the wait for the Validation marker settled; the wait for
\* the media message is armed before the upload request is sent.
JourneyAfterValidationMessage ==
    /\ jr.pc = "waitValMsg"
    /\ wait.state \in {"resolved", "rejected"}
    /\ IF wait.state = "rejected" THEN Throw("XMPP_MESSAGE_TIMEOUT") /\ UNCHANGED wait
       ELSE /\ jr' = [step(step(jr, "await_media_message"), "upload_file")
                        EXCEPT !.pc = "upload"]
            /\ wait' = armMediaWait
            /\ UNCHANGED <<plat, sess>>
    /\ UNCHANGED <<jc, notJourney>>

\* Lines 849-861: the answer to the upload; then the media wait is awaited.
JourneyUpload(resp) ==
    /\ jr.pc = "upload"
    /\ CASE resp = "fail" -> Throw("file upload failed")
         [] resp = "nofield" -> Throw("file upload: missing results[0].location")
         [] OTHER -> jr' = [jr EXCEPT !.pc = "waitMedia"] /\ UNCHANGED <<plat, sess>>
    /\ UNCHANGED <<wait, jc, notJourney>>

\* Lines 861-868: the media wait settled; Bob's Test client is stopped and the
\* file is fetched.
JourneyAfterMediaMessage ==
    /\ jr.pc = "waitMedia"
    /\ wait.state \in {"resolved", "rejected"}
    /\ IF wait.state = "rejected" THEN Throw("XMPP_MESSAGE_TIMEOUT")
       ELSE /\ jr' = [step(jr, "file_access") EXCEPT !.pc = "fileAccess"]
            /\ sess' = [sess EXCEPT !["bobTest"] = stop(@)]
            /\ UNCHANGED plat
    /\ UNCHANGED <<wait, jc, notJourney>>

\* Lines 868-871: the answer to the file request.
JourneyFileAccess(resp) ==
    /\ jr.pc = "fileAccess"
    /\ IF resp = "ok" THEN Goto(jr, "removeBob", "remove_bob_from_test")
       ELSE Throw("file access failed")
    /\ UNCHANGED <<wait, jc, notJourney>>

\* Lines 871-882: the answer to the removal of Bob; Bob tries to join again.
JourneyRemoveBob(resp) ==
    /\ jr.pc = "removeBob"
    /\ IF resp # "ok" THEN Throw("remove user failed")
       ELSE /\ jr' = [step(jr, "bob_join_denied") EXCEPT !.pc = "rejoin"]
            /\ sess' = [sess EXCEPT !["bobRejoin"] = joinStarted(StageOf("bobRejoin"))]
            /\ UNCHANGED plat
    /\ UNCHANGED <<wait, jc, notJourney>>

\* Lines 880-900: the join of Bob after his removal settled.  When it
\* succeeded the client is stopped and the error thrown at line 884 is caught
\* at line 885; either way the run goes on to its last step and returns ok.
JourneyAfterRejoin ==
    /\ jr.pc = "rejoin"
    /\ sess["bobRejoin"].promise # "pending"
    /\ LET ss == IF sess["bobRejoin"].promise = "resolved"
                 THEN [sess EXCEPT !["bobRejoin"] = stop(@)] ELSE sess
           out == leaveTry(step(jr, "send_post_removal_message"), plat, TRUE, "")
       IN  /\ jr' = out[1]
           /\ plat' = out[2]
           /\ sess' = stopClients(ss, jr.xmppClients)
    /\ UNCHANGED <<wait, jc, notJourney>>

\* Events of the XMPP clients of the journey.
JourneyJoinOnline(s) ==
    /\ ~JourneyReady
    /\ sess[s].conn = "starting"
    /\ sess' = [sess EXCEPT ![s] = onOnline(@)]
    /\ UNCHANGED <<jr, plat, wait, jc, notJourney>>

JourneyJoinStartRejected(s) ==
    /\ ~JourneyReady
    /\ sess[s].conn = "starting"
    /\ sess' = [sess EXCEPT ![s] = onStartRejected(@)]
    /\ UNCHANGED <<jr, plat, wait, jc, notJourney>>

JourneyJoinError(s) ==
    /\ ~JourneyReady
    /\ IsOpen(sess[s])
    /\ sess' = [sess EXCEPT ![s] = onError(@)]
    /\ UNCHANGED <<jr, plat, wait, jc, notJourney>>

JourneyJoinStanza(s, st) ==
    /\ ~JourneyReady
    /\ sess[s].conn = "online"
    /\ sess[s].handler
    /\ st.body = "other"
    /\ sess' = [sess EXCEPT ![s] = journeyStanzaHandler(@, st)]
    /\ UNCHANGED <<jr, plat, wait, jc, notJourney>>

JourneyJoinTimeout(s) ==
    /\ ~JourneyReady
    /\ sess[s].timer
    /\ sess' = [sess EXCEPT ![s] = onJoinTimeout(@)]
    /\ UNCHANGED <<jr, plat, wait, jc, notJourney>>

\* Lines 561-573: a stanza arrives on the client a wait is attached to.
JourneyWaitStanza(st) ==
    /\ ~JourneyReady
    /\ wait.handler
    /\ sess[wait.on].conn = "online"
    /\ wait' = IF onStanzaMatches(st, wait.match)
               THEN [wait EXCEPT !.handler = FALSE, !.timer = FALSE, !.state = "resolved"]
               ELSE wait
    /\ UNCHANGED <<jr, plat, sess, jc, notJourney>>

\* Line 578: the timer of a wait fires.
JourneyWaitTimeout ==
    /\ ~JourneyReady
    /\ wait.timer
    /\ wait' = [wait EXCEPT !.handler = FALSE, !.timer = FALSE, !.state = "rejected"]
    /\ UNCHANGED <<jr, plat, sess, jc, notJourney>>

\* checker.ts 161-167: the run returned first; its result is the check's.
JourneyCheckReturns ==
    /\ jc.pc = "racing"
    /\ jr.pc = "returned"
    /\ jc' = [pc |-> "returned", result |-> [ok |-> jr.result.ok, errorText |-> ""]]
    /\ UNCHANGED <<jr, plat, sess, wait, notJourney>>

\* checker.ts 164-173: the deadline fired first; the check fails with
\* "timeout".  Nothing is said to the run, which goes on.
JourneyDeadline ==
    /\ jc.pc = "racing"
    /\ ~JourneyReady
    /\ jc' = [pc |-> "returned", result |-> [ok |-> FALSE, errorText |-> "timeout"]]
    /\ UNCHANGED <<jr, plat, sess, wait, notJourney>>

HttpResponses == {"ok", "fail", "nofield"}

InitJourney ==
    /\ jr = JourneyIdle
    /\ plat = PlatformInit
    /\ wait = NoWait
    /\ jc = JourneyCheckIdle

NextJourney ==
    \/ \E envOk, observerRoom, xmppEnv \in BOOLEAN, candidate \in ModeCandidates,
          n \in 0..MaxUsersCount :
            RunJourneyCheck(envOk, candidate, n, observerRoom, xmppEnv)
    \/ \E resp \in HttpResponses : JourneyConfig(resp)
    \/ \E resp \in HttpResponses : JourneyObserverLogin(resp)
    \/ JourneyAfterObserverJoin
    \/ \E resp \in HttpResponses : JourneyAdminLogin(resp)
    \/ \E resp \in {"ok", "fail", "notoken"} : JourneyCreateApp(resp)
    \/ \E resp \in {"ok", "fail"} : JourneySignup(resp)
    \/ \E resp \in HttpResponses, hasXmpp \in BOOLEAN : JourneyLogin(resp, hasXmpp)
    \/ \E resp \in HttpResponses : JourneyCreateChat(resp)
    \/ \E resp \in {"ok", "fail"} : JourneyAddUser(resp)
    \/ \E resp \in HttpResponses : JourneyCreateTest(resp)
    \/ \E resp \in HttpResponses : JourneyCreateValidation(resp)
    \/ \E resp \in {"ok", "fail"} : JourneyAddTest(resp)
    \/ \E resp \in {"ok", "fail"} : JourneyAddValidation(resp)
    \/ JourneyAfterBobJoin
    \/ JourneyAfterAliceJoin
    \/ JourneyAfterTestMessage
    \/ JourneyAfterValidationMessage
    \/ \E resp \in HttpResponses : JourneyUpload(resp)
    \/ JourneyAfterMediaMessage
    \/ \E resp \in {"ok", "fail"} : JourneyFileAccess(resp)
    \/ \E resp \in {"ok", "fail"} : JourneyRemoveBob(resp)
    \/ JourneyAfterRejoin
    \/ \E deleted \in BOOLEAN : JourneyCleanupResponse(deleted)
    \/ \E s \in JourneySessions : JourneyJoinOnline(s)
    \/ \E s \in JourneySessions : JourneyJoinStartRejected(s)
    \/ \E s \in JourneySessions : JourneyJoinError(s)
    \/ \E s \in JourneySessions, st \in Stanzas : JourneyJoinStanza(s, st)
    \/ \E s \in JourneySessions : JourneyJoinTimeout(s)
    \/ \E st \in MessageStanzas : JourneyWaitStanza(st)
    \/ JourneyWaitTimeout
    \/ JourneyCheckReturns
    \/ JourneyDeadline

\* ------------------------------------------------------------------------
\* server.ts: GET /api/summary (lines 79-152), for one instance.
\*   checks   the checks of the instance, each with the severity of its meta
\*            and its most recent row of check_runs
\*   i        the check the loop is at
\*   hasFail, hasWarn, status   as in the code
\* ------------------------------------------------------------------------

\* meta.severity; "" when meta has none.
Severities == {"", "critical", "optional"}

\* error_text of a row; "" is null.
ErrorTexts == {"", "timeout", "skipped: Missing env"}

\* The error texts of the model that start with 'skipped:'.
SkippedTexts ==
    {"skipped: Missing env", "skipped: Missing env: ETHORA_XMPP_ADMIN_PASSWORD"}

\* last.rows[0]: no row, a row with ok, or a row without ok and its error_text.
NoRow == [present |-> FALSE, ok |-> FALSE, error_text |-> ""]

Rows ==
    {NoRow, [present |-> TRUE, ok |-> TRUE, error_text |-> ""]}
    \cup [present : {TRUE}, ok : {FALSE}, error_text : ErrorTexts]

SummaryChecks == [severity : Severities, row : Rows]

SummaryCheckSeqs == UNION {[1..n -> SummaryChecks] : n \in 0..MaxChecks}

\* Line 100: meta?.severity || 'critical'.
severityOf(meta) == IF meta = "" THEN "critical" ELSE meta

\* Line 121: typeof row.error_text === 'string' && startsWith('skipped:').
startsWithSkipped(text) == text \in SkippedTexts

\* Missing data counts as a failure.
contribution_missingFails(chk) ==
    IF severityOf(chk.severity) = "optional" THEN "none"
    ELSE IF ~chk.row.present THEN "fail"
    ELSE IF chk.row.ok THEN "none"
    ELSE IF startsWithSkipped(chk.row.error_text) THEN "warn"
    ELSE "fail"

\* Lines 111-126: what one check contributes to the flags of its instance.
contribution(chk) ==
    IF ~chk.row.present
    THEN IF severityOf(chk.severity) # "optional" THEN "warn" ELSE "none"
    ELSE IF chk.row.ok THEN "none"
    ELSE IF severityOf(chk.severity) = "optional" THEN "none"
    ELSE IF startsWithSkipped(chk.row.error_text) THEN "warn"
    ELSE "fail"

SummaryIdle ==
    [pc |-> "idle", config |-> <<>>, checks |-> <<>>, i |-> 0, hasFail |-> FALSE,
     hasWarn |-> FALSE, status |-> "none"]

\* unnamed/part_001 84-89 (db.ts, upsertConfig): the meta written for a check
\* of the configuration holds method, headers, body and expect; the severity
\* of the check is not among them, so the meta read back has none.
persistedSeverity(severity) == ""

\* unnamed/part_001 57-97: the checks of a loaded configuration are written to
\* the checks table.  config gives, for each check, its severity in the
\* configuration ("" when it has none) and the latest row stored for it.
UpsertConfig(config) ==
    /\ sm.pc = "idle"
    /\ sm' = [sm EXCEPT !.pc = "persisted", !.config = config,
                        !.checks = [k \in DOMAIN config |->
                                      [severity |-> persistedSeverity(config[k].severity),
                                       row |-> config[k].row]]]
    /\ UNCHANGED notSummary

\* Lines 85-96: the summary reads the checks that upsertConfig wrote.
SummaryRequestPersisted ==
    /\ sm.pc = "persisted"
    /\ sm' = [sm EXCEPT !.pc = "loop", !.i = 1]
    /\ UNCHANGED notSummary

\* Lines 85-96: the checks of the instance are read.
SummaryRequest(checks) ==
    /\ sm.pc = "idle"
    /\ sm' = [sm EXCEPT !.pc = "loop", !.checks = checks, !.i = 1]
    /\ UNCHANGED notSummary

\* Lines 98-138: one iteration of the loop over the checks.
SummaryCheck ==
    /\ sm.pc = "loop"
    /\ sm.i <= Len(sm.checks)
    /\ sm' = [sm EXCEPT !.i = @ + 1,
                        !.hasFail = @ \/ contribution(sm.checks[sm.i]) = "fail",
                        !.hasWarn = @ \/ contribution(sm.checks[sm.i]) = "warn"]
    /\ UNCHANGED notSummary

\* Lines 140-148: the status of the instance.
SummaryRespond ==
    /\ sm.pc = "loop"
    /\ sm.i > Len(sm.checks)
    /\ sm' = [sm EXCEPT !.pc = "responded",
                        !.status = IF sm.hasFail THEN "red"
                                   ELSE IF sm.hasWarn THEN "amber" ELSE "green"]
    /\ UNCHANGED notSummary

InitSummary == sm = SummaryIdle

NextSummary ==
    \/ \E checks \in SummaryCheckSeqs : SummaryRequest(checks)
    \/ \E config \in SummaryCheckSeqs : UpsertConfig(config)
    \/ SummaryRequestPersisted
    \/ SummaryCheck
    \/ SummaryRespond

\* ------------------------------------------------------------------------
\* Specification of the lock, the manual trigger and the scheduler tick.
\* ------------------------------------------------------------------------
InitLock ==
    /\ inFlight = {}
    /\ task = [t \in Tasks |-> IdleTask]
    /\ checkRuns = <<>>

Init == InitLock /\ InitEcho /\ InitExec /\ InitJourney /\ InitSummary

Next ==
    \/ \E t \in Tasks, k \in CheckIds : WithCheckLockCall(t, k)
    \/ \E t \in Tasks, s \in {"resolved", "rejected"} : FnSettle(t, s)
    \/ \E t \in Tasks, id \in RequestIds : ManualTrigger(t, id)
    \/ \E t \in Tasks, ok \in BOOLEAN : ManualComplete(t, ok)
    \/ \E t \in Tasks : ManualRejects(t)
    \/ \E t \in Tasks, c \in CheckIds : SchedulerTick(t, c)
    \/ \E t \in Tasks, ok \in BOOLEAN : TickComplete(t, ok)
    \/ \E t \in Tasks : TickFails(t)

Spec == Init /\ [][Next]_vars

SpecEcho == Init /\ [][NextEcho]_vars

\* What the run-time guarantees of the room-echo check: a continuation whose
\* awaited promise has settled runs, an armed timer fires unless it is cleared
\* first, and an administrative HTTP call is answered or ended by its socket
\* timeout (ejabberdPostJson always resolves).  Nothing is assumed of what
\* the server sends on an XMPP connection.
EchoFairness ==
    /\ WF_vars(\E b \in BOOLEAN, ms \in CheckTimeouts : EchoStart(b, ms))
    /\ WF_vars(\E r \in ApiResponses : EchoRegister(r))
    /\ WF_vars(\E r \in ApiResponses : EchoChangePassword(r))
    /\ WF_vars(EchoDestroyRoom)
    /\ WF_vars(EchoAfterAdminJoin)
    /\ WF_vars(EchoAfterUser2Join)
    /\ WF_vars(EchoAfterUser1Join)
    /\ WF_vars(EchoTimeout)
    /\ WF_vars(EchoAfterAwait)
    /\ WF_vars(EchoFinally)
    /\ \A s \in EchoSessions : WF_vars(EchoJoinTimeout(s))

SpecEchoFair == Init /\ [][NextEcho]_vars /\ EchoFairness

SpecExec == Init /\ [][NextExec]_vars

SpecJourney == Init /\ [][NextJourney]_vars

SpecSummary == Init /\ [][NextSummary]_vars

\* ------------------------------------------------------------------------
\* Properties of the lock, the manual trigger and the scheduler tick.
\* ------------------------------------------------------------------------

\* The functions running under withCheckLock for key k: those of direct calls
\* and of scheduler ticks.
Guarded(k) ==
    {t \in Tasks : /\ task[t].kind \in {"call", "tick"}
                   /\ task[t].pc = "running"
                   /\ task[t].key = k}

\* C1: mutual exclusion per key.  In every interleaving of withCheckLock
\* calls at most one guarded function for a given key is executing.
C1_MutualExclusion ==
    \A k \in CheckIds : Cardinality(Guarded(k)) <= 1

\* A guarded function is running for a key while a second call for the same
\* key has been made.
C1_Witness ==
    \E t, u \in Tasks :
        /\ t # u
        /\ task[t].kind = "call" /\ task[t].pc = "running"
        /\ task[u].kind = "call" /\ task[u].key = task[t].key
        /\ task[u].pc = "done" /\ ~task[u].ran

\* C2: release on every exit path.  Once the guarded function has settled,
\* resolved or rejected, its key is no longer held: a key is in the set only
\* while a function guarded by it is still running, so a later call on the
\* same key is admitted and no key stays held forever.
C2_ReleasedOnEveryExit ==
    \A k \in CheckIds : isCheckLocked(k) => Guarded(k) # {}

\* A guarded function rejected, its key is free, and a later call on the same
\* key was admitted and ran its function.
C2_Witness ==
    \E t, u \in Tasks :
        /\ t < u
        /\ task[t].kind = "call" /\ task[t].pc = "done"
        /\ task[t].outcome = "rejected" /\ task[t].ran
        /\ task[u].kind = "call" /\ task[u].key = task[t].key
        /\ task[u].ran /\ task[u].pc = "done"
        /\ ~isCheckLocked(task[t].key)

\* C3: a call of withCheckLock for a key that is held fails at once with
\* code CHECK_ALREADY_RUNNING carrying the check id; its function is not run,
\* the call is not left waiting, and the set of held keys is unchanged.
C3_RefusedImmediately ==
    [][\A t \in Tasks :
          (/\ task[t].pc = "idle"
           /\ task'[t].kind = "call"
           /\ isCheckLocked(task'[t].key))
          => (/\ task'[t].pc = "done"
              /\ task'[t].outcome = "rejected"
              /\ task'[t].errCode = "CHECK_ALREADY_RUNNING"
              /\ task'[t].errCheckId = task'[t].key
              /\ ~task'[t].ran
              /\ inFlight' = inFlight)]_vars

\* A call was refused with the conflict error while the holder of its key is
\* still running.
C3_Witness ==
    \E t, u \in Tasks :
        /\ task[t].pc = "running" /\ task[t].kind \in {"call", "tick"}
        /\ task[u].kind = "call" /\ task[u].key = task[t].key
        /\ task[u].errCode = "CHECK_ALREADY_RUNNING" /\ ~task[u].ran

\* C4: of two triggers of one check id, scheduled or manual, issued before
\* the first completes, only one executes and only one writes a result: a
\* trigger issued while an execution of its check is in flight neither
\* executes the check nor writes a row.
C4_OverlappingTriggerWritesNothing ==
    \A t \in Tasks :
        (task[t].kind \in {"tick", "manual"} /\ task[t].overlapped)
        => /\ ~task[t].ran
           /\ \A i \in DOMAIN checkRuns : checkRuns[i].by # t

\* C5: a manual trigger runs the check through the run lock: while its
\* execution is in flight the key is held, and a manual trigger issued while
\* an execution of the same check is in flight starts no execution and is
\* answered "already running".
C5_ManualTriggerUsesLock ==
    \A t \in Tasks :
        task[t].kind = "manual" =>
            /\ (task[t].pc = "running" => isCheckLocked(task[t].key))
            /\ (task[t].overlapped =>
                    ~task[t].ran /\ task[t].errCode = "CHECK_ALREADY_RUNNING")

\* ------------------------------------------------------------------------
\* Properties of the room-echo check.
\* ------------------------------------------------------------------------

\* C6: room-echo session safety.  On every exit path of one execution every
\* client that was opened during it has been stopped by the time the result
\* is returned.
C6_NoSessionOutlivesExecution ==
    echo.pc = "returned" => \A s \in EchoSessions : ~IsOpen(sess[s])

\* ------------------------------------------------------------------------
\* Properties of the check executor.
\* ------------------------------------------------------------------------

\* C9: a check result is always produced.  For every check definition and
\* every behaviour of the remote endpoint the promise of runCheckWithOpts
\* never rejects.
C9_NeverRejects == ex.outcome # "rejected"

\* ------------------------------------------------------------------------
\* Properties of the journey.
\* ------------------------------------------------------------------------

\* A cleanup request was sent for the chat c.
ChatCleanupRequested(c) ==
    \E k \in DOMAIN plat.requests : ChatOf(plat.requests[k].op) = c

\* C7: journey cleanup registration.  Whichever step fails, when the run
\* returns a cleanup was attempted for every entity created so far: a delete
\* request was sent for the application, for each user and for each chat that
\* exists, and every client that was opened has been stopped.
C7_CleanupAttemptedForEveryEntity ==
    jr.pc = "returned" =>
        /\ plat.app =>
              \E k \in DOMAIN plat.requests : plat.requests[k].op = "cleanup_delete_app"
        /\ \A u \in plat.users :
              \E k \in DOMAIN plat.requests : u \in plat.requests[k].users
        /\ \A c \in plat.chats : ChatCleanupRequested(c)
        /\ \A s \in JourneySessions : ~IsOpen(sess[s])

\* C8: the deadline cancels the run.  Once runJourneyCheck has returned its
\* timeout result the journey takes no further step: the run's state and the
\* platform's entities and requests stay as they are.
C8_DeadlineCancelsRun ==
    [][(jc.pc = "returned" /\ jc.result.errorText = "timeout")
          => (jr' = jr /\ plat' = plat)]_vars

\* C10: advanced journey negative test.  If the rejoin attempt of the removed
\* participant succeeded, the 'ok' step is never recorded and the run does
\* not report ok.
C10_SuccessfulRejoinFailsRun ==
    sess["bobRejoin"].promise = "resolved" =>
        /\ ~jr.result.ok
        /\ \A k \in DOMAIN jr.steps : jr.steps[k] # "ok"

\* C11: advanced journey upload ordering.  While the upload request is in
\* flight the media wait is the current wait on Bob's Test client and, as long
\* as it is pending, its listener is attached; a notification observed then
\* keeps the wait resolved with its timer cleared, and a run that fails with
\* XMPP_MESSAGE_TIMEOUT has a wait that was rejected, not resolved.
C11_MediaListenerArmedBeforeUpload ==
    /\ jr.pc \in {"upload", "waitMedia"} =>
          /\ wait.on = "bobTest"
          /\ wait.match = "media"
          /\ wait.state \in {"pending", "resolved", "rejected"}
          /\ wait.state = "pending" => wait.handler /\ wait.timer
    /\ wait.state = "resolved" => ~wait.timer /\ ~wait.handler
    /\ jr.result.error = "XMPP_MESSAGE_TIMEOUT" => wait.state = "rejected"

\* The media notification arrived while the upload request was in flight.
C11_Witness ==
    /\ jr.pc = "upload"
    /\ wait.match = "media"
    /\ wait.state = "resolved"

\* The operations of the cleanup requests received, in their order.
RequestOps == [k \in DOMAIN plat.requests |-> plat.requests[k].op]

\* The cleanup a basic run owes for what it holds: the chat, then the users,
\* then the application.
BasicCleanupOwed ==
    (IF "chat" \in jr.chats THEN <<"cleanup_delete_chat">> ELSE <<>>)
    \o (IF jr.newAppId /\ jr.users # {} THEN <<"cleanup_delete_users">> ELSE <<>>)
    \o (IF jr.newAppId THEN <<"cleanup_delete_app">> ELSE <<>>)

C13_CleanupStepsIndependent ==
    [][(jr.pc \in Range(CleanupStages(jr.mode)) /\ jr' # jr) =>
          /\ jr'.result = jr.result
          /\ LET n == nextCleanup(jr, CleanupIndex(jr) + 1)
             IN  jr'.pc = IF n = 0 THEN "returned" ELSE CleanupStages(jr.mode)[n]]_vars

\* An advanced run returned ok although the delete of the Test chat failed;
\* the later cleanup requests were sent all the same.
C13_Witness ==
    /\ jr.mode = "advanced"
    /\ jr.pc = "returned"
    /\ jr.result.ok
    /\ "test" \in plat.chats
    /\ RequestOps = <<"cleanup_delete_test_chat", "cleanup_delete_validation_chat",
                      "cleanup_delete_users", "cleanup_delete_app">>

\* The run without what belongs to the observer channel.
EraseObserver(j) ==
    [j EXCEPT !.observerRoom = FALSE,
              !.xmppClients = SelectSeq(@, LAMBDA c : c # "observer")]

\* The run without an observer room at the moment it sends the admin login,
\* for the mode, user count and settings of j.
NoObserverAtAdminLogin(j) ==
    [step(step(JourneyIdle, "get_base_app_config"), "login_admin_user") EXCEPT
        !.mode = j.mode, !.pc = "adminLogin", !.usersCount = j.usersCount,
        !.xmppEnv = j.xmppEnv]

C15_JoinConfirmation ==
    \A s \in EchoSessions :
        (sess[s].handler /\ sess[s].promise = "pending") =>
            \A st \in Stanzas :
                LET y == stanzaHandler(sess[s], st)
                    err == st.kind = "presence" /\ st.type = "error"
                    conf == st.kind = "presence" /\ st.type # "error" /\ st.from = "room"
                IN  /\ y.promise = "resolved" <=> conf
                    /\ y.promise = "rejected" <=> err
                    /\ err => /\ y.err = "XMPP_JOIN_ERROR"
                              /\ y.errStage = StageOf(s)
                              /\ ~y.timer
                    /\ ~conf /\ ~err => y = sess[s]

\* The join of user2 was rejected by a presence error.
C15_Witness ==
    /\ sess["user2"].promise = "rejected"
    /\ sess["user2"].err = "XMPP_JOIN_ERROR"
    /\ sess["user2"].errStage = "user2_join"

\* C16: the journey's join and echo-wait primitives follow the contract of the
\* room-echo check.  On every stanza the journey's join handler has the
\* outcome of the room-echo check's join handler, and the journey's wait for
\* a marker resolves on exactly the messages on which the room-echo check's
\* message handler resolves.
C16_SameJoinEchoContract ==
    /\ \A s \in JourneySessions :
          (sess[s].handler /\ sess[s].promise = "pending") =>
              \A st \in Stanzas :
                  journeyStanzaHandler(sess[s], st) = stanzaHandler(sess[s], st)
    /\ (wait.handler /\ wait.match = "marker") =>
          \A st \in MessageStanzas :
              onStanzaMatches(st, wait.match) <=> messageMatches(st)

\* C17: the admin session of the room-echo check stays connected until the
\* final cleanup.  No step of the check closes the admin's session except the
\* finally block; and when the finally block closes it after a successful
\* echo, both participants' joins have resolved.  (A step that leaves the
\* check where it is and closes the session is a transport error or a join
\* timeout on that session.)
C17_AdminStaysUntilCleanup ==
    [][(IsOpen(sess["admin"]) /\ ~IsOpen(sess'["admin"]) /\ echo' # echo) =>
          /\ echo.pc = "finally"
          /\ echo'.pc = "returned"
          /\ echo.result.ok =>
                /\ sess["user2"].promise = "resolved"
                /\ sess["user1"].promise = "resolved"]_vars

\* The echo succeeded and the admin's session was closed by the final cleanup
\* after both participants had joined.
C17_Witness ==
    /\ echo.pc = "returned"
    /\ echo.result.ok
    /\ sess["admin"].conn = "stopped"
    /\ sess["user2"].promise = "resolved"
    /\ sess["user1"].promise = "resolved"

\* C18: room-echo outcome.  The check returns ok exactly when the receiver's
\* handler has accepted a message before the echo deadline (the race of the
\* receipt against the deadline resolved); the handler
\* accepts exactly the group-chat messages from the room whose body is the
\* marker of this execution; and when the marker was sent and never accepted
\* the result is ok:false with errorText XMPP_ECHO_TIMEOUT.
C18_EchoOutcome ==
    /\ echo.pc \in {"finally", "returned"} =>
          /\ echo.result.ok <=> echo.race = "resolved"
          /\ echo.race = "resolved" => echo.receivedPromise = "resolved"
          /\ (echo.markerSent /\ echo.race # "resolved") =>
                echo.result = [ok |-> FALSE, errorText |-> "XMPP_ECHO_TIMEOUT"]
    /\ echo.msgHandler =>
          \A st \in Stanzas :
              messageMatches(st) <=>
                  /\ st.kind = "message"
                  /\ st.type = "groupchat"
                  /\ st.from = "room"
                  /\ st.body = "marker"

\* The marker was sent and never arrived: the check returned the timeout.
C18_Witness ==
    /\ echo.pc = "returned"
    /\ echo.markerSent
    /\ echo.result.errorText = "XMPP_ECHO_TIMEOUT"

\* ------------------------------------------------------------------------
\* Properties of the summary.
\* ------------------------------------------------------------------------

\* A check that is not optional failed for real, by its most recent row.
CriticalFailure(chk) ==
    /\ chk.severity # "optional"
    /\ chk.row.present
    /\ ~chk.row.ok
    /\ chk.row.error_text \notin SkippedTexts

\* A check that is not optional has no row, or its most recent row is a
\* skipped result.
CriticalWarning(chk) ==
    /\ chk.severity # "optional"
    /\ \/ ~chk.row.present
       \/ chk.row.present /\ ~chk.row.ok /\ chk.row.error_text \in SkippedTexts

\* C20: instance rollup.  The status is red when some critical check's most
\* recent result is a failure that is not skipped; otherwise amber when some
\* critical check has no result or a skipped one; otherwise green.
C20_InstanceRollup ==
    sm.pc = "responded" =>
        LET fail == \E k \in DOMAIN sm.checks : CriticalFailure(sm.checks[k])
            warn == \E k \in DOMAIN sm.checks : CriticalWarning(sm.checks[k])
        IN  sm.status = IF fail THEN "red" ELSE IF warn THEN "amber" ELSE "green"

\* An instance with a critical check without data and no failure is amber.
C20_Witness ==
    /\ sm.pc = "responded"
    /\ sm.status = "amber"
    /\ \E k \in DOMAIN sm.checks :
          sm.checks[k].severity # "optional" /\ ~sm.checks[k].row.present
    /\ \A k \in DOMAIN sm.checks : ~CriticalWarning(sm.checks[k]) \/ ~sm.checks[k].row.present

\* The row of check_runs written for the result of the journey check
\* (errorText ?? null).
JourneyCheckRow ==
    [present |-> TRUE, ok |-> jc.result.ok, error_text |-> jc.result.errorText]

\* C19: skipped is distinguished from failed.  When the journey check returns
\* because settings it requires are absent (those read at its start, or the
\* protocol service and host that the advanced run reads), its result is
\* ok:false with an errorText that starts with 'skipped:', and that result
\* contributes warn, not fail, for a critical check.
C19_MissingEnvIsSkipped ==
    (/\ jc.pc = "returned"
     /\ jc.result.errorText # "timeout"
     /\ jr.pc = "idle" \/ jr.result.error = "Missing env: ETHORA_XMPP_SERVICE") =>
        /\ ~jc.result.ok
        /\ startsWithSkipped(jc.result.errorText)
        /\ contribution([severity |-> "critical", row |-> JourneyCheckRow]) = "warn"

\* C21: optional checks never affect the rollup, end to end.  After a loaded
\* configuration has been persisted and read back by the summary, an instance
\* all of whose checks that the configuration does not declare optional have
\* an ok latest result is green, whatever its optional checks report.
C21_OptionalNeverAffectsRollup ==
    (/\ sm.pc = "responded"
     /\ sm.config # <<>>
     /\ \A k \in DOMAIN sm.config :
           sm.config[k].severity # "optional" =>
               sm.config[k].row.present /\ sm.config[k].row.ok) =>
        sm.status = "green"

\* ------------------------------------------------------------------------
\* Properties of the http and websocket checks.
\* ------------------------------------------------------------------------

\* The http check returned the result of a response.
HttpAnswered ==
    /\ ex.pc = "done"
    /\ ex.chk.type = "http"
    /\ ex.outcome = "resolved"
    /\ ex.result.errorText = ""

\* C22: http status rules.  For an http check whose expectations are only
\* status_code rules, the result of a response has ok exactly when the status
\* is 2xx and belongs to the expected set of every rule, and its statusCode is
\* the status of the response.
C22_HttpStatusRules ==
    (HttpAnswered /\ ~hasJsonRules(ex.chk.expect)) =>
        /\ ex.result.statusCode = ex.statusCode
        /\ ex.result.ok <=>
              /\ ex.statusCode \in 200..299
              /\ \A i \in DOMAIN ex.chk.expect :
                    ex.statusCode \in ex.chk.expect[i].expected

\* A check that expects [200] got a 500 and reports {ok:false, statusCode:500}.
C22_Witness ==
    /\ HttpAnswered
    /\ ex.chk.expect = <<StatusRule({200})>>
    /\ ex.statusCode = 500
    /\ ex.result.statusCode = 500
    /\ ~ex.result.ok

\* A json rule that asserts something.
Asserting(rule) == rule.type = "json" /\ (rule.exists \/ rule.equals # NoEquals)

\* The result of an http check with json rules whose body could not be parsed.
UnparsableAnswered ==
    /\ HttpAnswered
    /\ hasJsonRules(ex.chk.expect)
    /\ ex.body \notin Docs

\* What C23 says of such a result: ok is what the status and the status rules
\* give, made false by every json rule that asserts exists or equals and left
\* alone by capture-only rules; details.jsonParse is 'failed' and there are no
\* captures.
UnparsableResult ==
    UnparsableAnswered =>
        /\ ex.result.details.jsonParse = "failed"
        /\ ex.result.details.captures = <<>>
        /\ ex.result.ok <=>
              /\ ex.statusCode \in 200..299
              /\ \A i \in DOMAIN ex.chk.expect :
                    /\ ex.chk.expect[i].type = "status_code" =>
                          ex.statusCode \in ex.chk.expect[i].expected
                    /\ ~Asserting(ex.chk.expect[i])

\* C23: json rules on an unparsable body.  The body is read and parsed once:
\* the step that follows its read returns the result; and that result is as
\* UnparsableResult says.
C23_JsonRulesOnUnparsableBody ==
    [][/\ (ex.pc = "body" /\ ex' # ex) => ex'.pc = "done"
       /\ UnparsableResult']_vars

\* A check with only a capture-only json rule got a 200 with an unparsable
\* body and is ok.
C23_Witness ==
    /\ UnparsableAnswered
    /\ ex.chk.expect = <<JsonRule(<<"a">>, FALSE, NoEquals, "v")>>
    /\ ex.result.ok
    /\ ex.result.details.jsonParse = "failed"

\* An http request is in flight: fetch, or the read of the body, is awaited.
HttpInFlight == ex.chk.type = "http" /\ ex.pc \in {"fetch", "body"}

\* C24: the hard timeout of an http check.  While the request is in flight
\* the abort timer is armed; a step that settles the request after the timer
\* aborted it gives ok:false with errorText 'timeout' and no statusCode, and
\* a step that settles it with another failure gives ok:false with an
\* errorText that is not 'timeout'.
C24_HttpHardTimeout ==
    [][/\ HttpInFlight' => (ex'.timer /\ ~ex'.aborted)
       /\ (HttpInFlight /\ ex'.pc = "done") =>
             /\ ex'.aborted => ex'.result = Failure("timeout")
             /\ (~ex'.aborted /\ ex'.result.errorText # "") =>
                   /\ ~ex'.result.ok
                   /\ ex'.result.errorText # "timeout"]_vars

\* The timer aborted the read of the body of a response that had arrived: the
\* result is the timeout, without the status of that response.
C24_Witness ==
    /\ ex.chk.type = "http" /\ ex.pc = "done"
    /\ ex.aborted
    /\ ex.statusCode = 200
    /\ ex.result = Failure("timeout")

\* A websocket check produced its result for a connection it had created.
WssResult ==
    /\ ex.chk.type = "wss"
    /\ ex.pc = "done" /\ ex.outcome = "resolved"
    /\ ex.ws # "none"

\* C25: the websocket check never leaves a connection open.  On each of the
\* three branches that produce a result (opened, transport error, deadline)
\* close has been requested on the connection when the result is produced.
C25_WssCloseRequested == WssResult => ex.closeRequested

\* The first event of a websocket check decided its result.
WssDecided ==
    /\ ex.pc = "socket" /\ ex'.pc = "done"
    /\ ex'.outcome = "resolved"

\* C26: the outcome of a websocket check.  Every execution produces exactly
\* one result; the first of open, transport error and deadline decides it
\* (ok:true, ok:false with the error text, ok:false with 'timeout'), and no
\* later event changes it.
C26_WssOutcome ==
    [][/\ (ex'.chk.type = "wss" /\ ex'.pc = "done") => ex'.outcome = "resolved"
       /\ WssDecided =>
             ex'.result = CASE ex'.ws = "open" -> [Failure("") EXCEPT !.ok = TRUE]
                            [] ex'.ws = "closed" -> Failure("socket error")
                            [] OTHER -> Failure("timeout")
       /\ (ex.chk.type = "wss" /\ ex.pc = "done") =>
             (ex'.result = ex.result /\ ex'.outcome = ex.outcome /\ ex'.pc = "done")]_vars

\* ------------------------------------------------------------------------
\* Independence of the keys of the run lock.
\* ------------------------------------------------------------------------

\* C27: locks of different keys are independent.  A call of withCheckLock on
\* key B is admitted, and its function started, whenever B itself is not
\* held, whichever other keys are held at that moment; and a step that takes
\* or releases one key leaves every other key held or free as it was.
C27_KeysIndependent ==
    [][\A t \in Tasks :
          /\ (task[t].pc = "idle" /\ task'[t].kind = "call" /\ ~isCheckLocked(task'[t].key))
                => (task'[t].pc = "running" /\ task'[t].ran /\ task'[t].key \in inFlight')
          /\ task'[t] # task[t]
                => \A k \in CheckIds \ {task'[t].key} :
                       isCheckLocked(k)' <=> isCheckLocked(k)]_vars

\* Two guarded functions run at the same time under different keys.
C27_Witness ==
    \E t, u \in Tasks :
        /\ task[t].kind = "call" /\ task[t].pc = "running"
        /\ task[u].kind = "call" /\ task[u].pc = "running"
        /\ task[t].key # task[u].key
        /\ isCheckLocked(task[t].key) /\ isCheckLocked(task[u].key)

\* ------------------------------------------------------------------------
\* Properties of the manual trigger.
\* ------------------------------------------------------------------------

\* The rows of check_runs written by request t.
RowsBy(t) == {i \in DOMAIN checkRuns : checkRuns[i].by = t}

\* C28: the manual trigger.  For every check id of the configuration, enabled
\* or disabled, a finished trigger has executed the check once, appended
\* exactly one row for that check id and returned the run; a trigger with an
\* empty or unknown check id has executed nothing and appended nothing.
C28_ManualTrigger ==
    \A t \in Tasks :
        (task[t].kind = "manual" /\ task[t].pc = "done") =>
            IF task[t].key \in checkMap
            THEN /\ task[t].ran
                 /\ Cardinality(RowsBy(t)) = 1
                 /\ \A i \in RowsBy(t) : checkRuns[i].check_id = task[t].key
                 /\ task[t].outcome = "responded" /\ task[t].status = 200
            ELSE /\ ~task[t].ran
                 /\ RowsBy(t) = {}
                 /\ task[t].outcome = "error"

\* ------------------------------------------------------------------------
\* Properties of the scheduler.
\* ------------------------------------------------------------------------

\* A step in which the tick t ends without a result: it was skipped on a held
\* key, or an exception (from the executor or from the write of the result)
\* was caught and logged.
TickEndsWithoutResult(t) ==
    /\ task'[t] # task[t]
    /\ task'[t].kind = "tick"
    /\ task'[t].outcome \in {"skipped", "logged"}

\* C29: one failing check never stops the others.  The timer of every check
\* can fire in every state (the next tick of every check, the failing one
\* included, can be issued); a tick that ends without a result changes
\* nothing of any other tick or trigger and of any other key, and a tick
\* that failed leaves its own key free for the next tick.
C29_TickFailureContained ==
    [][/\ \A u \in Tasks, c \in CheckIds : Fresh(u) => ENABLED SchedulerTick(u, c)
       /\ \A t \in Tasks : TickEndsWithoutResult(t) =>
             /\ \A u \in Tasks \ {t} : task'[u] = task[u]
             /\ \A k \in CheckIds \ {task'[t].key} : isCheckLocked(k)' <=> isCheckLocked(k)
             /\ checkRuns' = checkRuns
             /\ task'[t].outcome = "logged" => task'[t].key \notin inFlight']_vars

\* A tick failed, and after it a tick of the same check and a tick of another
\* check were issued and ran.
C29_Witness ==
    \E t, u, v \in Tasks :
        /\ t < u /\ t < v /\ u # v
        /\ task[t].kind = "tick" /\ task[t].outcome = "logged"
        /\ task[u].kind = "tick" /\ task[u].key = task[t].key /\ task[u].ran
        /\ task[v].kind = "tick" /\ task[v].key # task[t].key /\ task[v].ran

\* ------------------------------------------------------------------------
\* The stages of the room-echo check.
\* ------------------------------------------------------------------------

\* The stages as facts of the execution: user1 is the sender of the marker
\* (line 425), user2 the receiver (the listener of line 419).
AccountsEnsured == echo.ensured = {"user1", "user2"}
RoomEnsured == "admin" \in echo.held
SenderJoined == "user1" \in echo.held
ReceiverJoined == "user2" \in echo.held
MarkerSent == echo.markerSent
EchoObserved == echo.result.ok
Cleaned == echo.pc = "returned"

\* The program positions inside the try block.
EchoTryPcs ==
    {"register1", "change1", "register2", "change2", "destroy",
     "adminJoin", "user2Join", "user1Join", "awaitEcho"}

\* Whatever stage the execution stopped at, it leaves the try block through
\* the finally block only, and the finally block ends in the terminal stage
\* with every client it holds stopped and the listener detached.
EndsCleaned ==
    /\ (echo.pc \in EchoTryPcs /\ echo'.pc # echo.pc) => echo'.pc \in EchoTryPcs \cup {"finally"}
    /\ (echo.pc = "finally" /\ echo'.pc # echo.pc) => Cleaned'
    /\ Cleaned' => /\ ~echo'.msgHandler
                   /\ \A s \in echo'.held : ~IsOpen(sess'[s])
    /\ Cleaned => echo' = echo

\* C30 as stated: the stages are passed in the order accounts ensured, room
\* ensured, sender joined, receiver joined, marker sent, echo observed; no
\* stage is entered before its predecessor completed, and the execution ends
\* in the cleaned terminal stage.
C30_StageOrderAsStated ==
    [][/\ EchoObserved' => MarkerSent'
       /\ MarkerSent' => ReceiverJoined'
       /\ ReceiverJoined' => SenderJoined'
       /\ SenderJoined' => RoomEnsured'
       /\ RoomEnsured' => AccountsEnsured'
       /\ EndsCleaned]_vars

\* C30, amended: the receiver joins before the sender.  The stages are passed
\* in the order accounts ensured, room ensured, receiver joined (with its
\* listener attached), sender joined, marker sent, echo observed; no stage is
\* entered before its predecessor completed, and the execution ends in the
\* cleaned terminal stage.
C30_StageOrder ==
    [][/\ EchoObserved' => MarkerSent'
       /\ MarkerSent' => SenderJoined'
       /\ SenderJoined' => ReceiverJoined'
       /\ (ReceiverJoined' /\ ~Cleaned') => echo'.msgHandler
       /\ ReceiverJoined' => RoomEnsured'
       /\ RoomEnsured' => AccountsEnsured'
       /\ EndsCleaned]_vars

\* The receiver has joined and listens while the sender's join is awaited.
C30_Witness ==
    /\ echo.pc = "user1Join"
    /\ AccountsEnsured /\ RoomEnsured /\ ReceiverJoined /\ echo.msgHandler
    /\ ~SenderJoined /\ ~MarkerSent

\* ------------------------------------------------------------------------
\* The time budget of the room-echo check.
\* ------------------------------------------------------------------------

\* C31: the stage deadlines of one execution of the room-echo check (account
\* calls, room destroy, admin join, the two participant joins, echo wait) are
\* budgeted against the overall timeout: their sum never exceeds it.
C31_DeadlinesWithinTimeout == echo.deadlines <= echo.timeoutMs

\* ------------------------------------------------------------------------
\* Account provisioning of the room-echo check.
\* ------------------------------------------------------------------------

\* The calls of the given path issued for user u.
CallsFor(calls, path, u) ==
    {i \in DOMAIN calls : calls[i].path = path /\ calls[i].user = u}

\* A step in which the answer to /register or /change_password is handled.
EnsureStep == echo.pc \in {"register1", "change1", "register2", "change2"} /\ echo' # echo

\* The account was ensured by this step and the next stage was entered.
EnsureSucceeded ==
    /\ EnsuredUser \in echo'.ensured
    /\ echo'.pc = IF EnsuredUser = "user1" THEN "register2" ELSE "destroy"

\* C32: account provisioning never deletes.  Ensuring an account starts with
\* a registration; a successful registration ends it; an answer with status
\* 409 or a conflict/already/exists message is followed by exactly one
\* password reset for that account, which ends it successfully if the reset
\* succeeds; any other registration failure and a failed reset fail the
\* check; the only calls ever issued are /register, /change_password and the
\* room's /destroy_room.
C32_ProvisioningNeverDeletes ==
    [][/\ (EnsureStep /\ echo.pc \in {"register1", "register2"}) =>
             IF echo'.reg.ok
             THEN EnsureSucceeded /\ CallsFor(echo'.calls, "/change_password", EnsuredUser) = {}
             ELSE IF echo'.reg.status = 409 \/ echo'.reg.text \in {"conflict", "already", "exists"}
             THEN /\ echo'.pc = (IF EnsuredUser = "user1" THEN "change1" ELSE "change2")
                  /\ echo'.calls = Append(echo.calls, [path |-> "/change_password", user |-> EnsuredUser])
                  /\ EnsuredUser \notin echo'.ensured
             ELSE /\ echo'.pc = "finally"
                  /\ echo'.result = [ok |-> FALSE, errorText |-> "XMPP_REGISTER_FAILED"]
                  /\ echo'.calls = echo.calls
       /\ (EnsureStep /\ echo.pc \in {"change1", "change2"}) =>
             IF echo'.ch.ok
             THEN EnsureSucceeded
             ELSE /\ echo'.pc = "finally"
                  /\ echo'.result = [ok |-> FALSE, errorText |-> "XMPP_CHANGE_PASSWORD_FAILED"]
                  /\ echo'.calls = echo.calls
       /\ \A i \in DOMAIN echo'.calls :
             echo'.calls[i].path \in {"/register", "/change_password", "/destroy_room"}
       /\ \A u \in {"user1", "user2"} :
             /\ Cardinality(CallsFor(echo'.calls, "/register", u)) <= 1
             /\ Cardinality(CallsFor(echo'.calls, "/change_password", u)) <= 1
             /\ CallsFor(echo'.calls, "/change_password", u) # {}
                   => CallsFor(echo'.calls, "/register", u) # {}]_vars

\* user1 was registered anew and user2, which existed already (a conflict
\* message with status 400), was ensured by one password reset: the room is
\* being destroyed.
C32_Witness ==
    /\ echo.pc = "destroy"
    /\ echo.ensured = {"user1", "user2"}
    /\ echo.reg = [ok |-> FALSE, status |-> 400, text |-> "conflict"]
    /\ echo.calls = <<[path |-> "/register", user |-> "user1"],
                      [path |-> "/register", user |-> "user2"],
                      [path |-> "/change_password", user |-> "user2"],
                      [path |-> "/destroy_room", user |-> ""]>>

\* ------------------------------------------------------------------------
\* The order of the steps of the journey.
\* ------------------------------------------------------------------------

\* The step names of signing up and logging in n users.
RECURSIVE UserSteps(_)
UserSteps(n) ==
    IF n = 0 THEN <<>> ELSE UserSteps(n - 1) \o <<"signup_user_v2", "login_user_v2">>

\* The steps of the workflow in the order of the code, for n users; the basic
\* run adds the second user to the chat only when there is one (add).
ListedSteps(mode, n, add) ==
    <<"get_base_app_config", "login_admin_user", "create_app">> \o UserSteps(n) \o
    (IF mode = "basic"
     THEN <<"create_chat">> \o (IF add THEN <<"chat_add_user">> ELSE <<>>)
     ELSE <<"create_chat_test", "create_chat_validation", "add_members_test",
            "add_members_validation", "xmpp_join_test", "send_test_message",
            "xmpp_join_validation", "send_validation_message",
            "await_media_message", "upload_file", "file_access",
            "remove_bob_from_test", "bob_join_denied", "send_post_removal_message">>)

IsPrefix(a, b) == Len(a) <= Len(b) /\ SubSeq(b, 1, Len(a)) = a

\* The position of the step that ends the workflow ('ok' or 'error') in the
\* step trace; one past its end when the workflow is still running.
WorkflowEnd(steps) ==
    IF \E i \in DOMAIN steps : steps[i] \in {"ok", "error"}
    THEN CHOOSE i \in DOMAIN steps :
            /\ steps[i] \in {"ok", "error"}
            /\ \A h \in 1..(i - 1) : steps[h] \notin {"ok", "error"}
    ELSE Len(steps) + 1

\* What a step needs from the steps before it is there when it starts.
StepHasItsInputs(name) ==
    CASE name = "create_app" -> jr.ownerUserToken
      [] name = "signup_user_v2" -> jr.newAppId /\ jr.newAppToken
      [] name \in {"create_chat", "create_chat_test"} ->
            jr.users = 0..(jr.usersCount - 1) /\ jr.chatOwnerToken
      [] name = "chat_add_user" -> "chat" \in jr.chats
      [] name = "create_chat_validation" -> "test" \in jr.chats
      [] name = "add_members_test" -> "validation" \in jr.chats
      [] OTHER -> TRUE

\* C33: journey abort on step failure.  In both modes the steps run in their
\* listed order, each only after the steps before it succeeded; once a step
\* failed nothing but cleanup follows: the trace has 'error', the result is
\* ok:false with the error in details.error and the finally block has
\* started; ok:true is reported only after every listed step.
C33_AbortOnStepFailure ==
    jr.mode # "none" =>
        LET k == WorkflowEnd(jr.steps)
            pre == SubSeq(jr.steps, 1, k - 1)
            add == Cardinality(jr.xmppNames) > 1
        IN  /\ \E a \in BOOLEAN : IsPrefix(pre, ListedSteps(jr.mode, jr.usersCount, a))
            /\ \A i \in DOMAIN pre : StepHasItsInputs(pre[i])
            /\ \A i \in DOMAIN jr.steps : i > k => jr.steps[i] \in Range(CleanupStages(jr.mode))
            /\ k > Len(jr.steps) => jr.result = JourneyIdle.result
            /\ (k <= Len(jr.steps) /\ jr.steps[k] = "error") =>
                  /\ ~jr.result.ok
                  /\ jr.result.error \notin {"none", ""}
                  /\ jr.pc \in Range(CleanupStages(jr.mode)) \cup {"returned"}
            /\ jr.result.ok =>
                  /\ k <= Len(jr.steps) /\ jr.steps[k] = "ok"
                  /\ pre = ListedSteps(jr.mode, jr.usersCount, add)

\* The sign-up of the first user failed: the trace ends with 'error' and the
\* deletion of the application, and no user was logged in.
C33_Witness ==
    /\ jr.pc = "returned"
    /\ jr.steps = <<"get_base_app_config", "login_admin_user", "create_app",
                    "signup_user_v2", "error", "cleanup_delete_app">>
    /\ jr.result = [ok |-> FALSE, error |-> "signup v2 failed"]

\* ------------------------------------------------------------------------
\* Cleanup of the advanced journey.
\* ------------------------------------------------------------------------

\* The cleanup an advanced run owes for what it holds: the Test room, the
\* Validation room, the users, the application.
AdvancedCleanupOwed ==
    (IF "test" \in jr.chats THEN <<"cleanup_delete_test_chat">> ELSE <<>>)
    \o (IF "validation" \in jr.chats THEN <<"cleanup_delete_validation_chat">> ELSE <<>>)
    \o (IF jr.newAppId /\ jr.users # {} THEN <<"cleanup_delete_users">> ELSE <<>>)
    \o (IF jr.newAppId THEN <<"cleanup_delete_app">> ELSE <<>>)

\* The cleanup requests of a returned advanced run are the owed ones, in the
\* order Test room, Validation room, users, application, after 'ok'/'error'.
AdvancedCleanupInOrder ==
    LET n == Len(jr.steps)
        c == Len(AdvancedCleanupOwed)
    IN  /\ RequestOps = AdvancedCleanupOwed
        /\ n > c
        /\ SubSeq(jr.steps, n - c + 1, n) = AdvancedCleanupOwed
        /\ jr.steps[n - c] \in {"ok", "error"}

\* C34: advanced journey cleanup.  Whichever step the run failed at, when it
\* returns every protocol session it opened has been stopped (the session of
\* a rejected or of a successful rejoin included) and the Test room, the
\* Validation room, the users and the application were deleted in this order.
C34_AdvancedCleanup ==
    (jr.mode = "advanced" /\ jr.pc = "returned") =>
        /\ \A s \in JourneySessions : ~IsOpen(sess[s])
        /\ AdvancedCleanupInOrder

\* ------------------------------------------------------------------------
\* Captures of the http check.
\* ------------------------------------------------------------------------

\* The result of an http check with json rules whose body was parsed.
ParsedAnswered ==
    /\ HttpAnswered
    /\ hasJsonRules(ex.chk.expect)
    /\ ex.body \in Docs

\* The json rules of the check that capture under key.
CapturingRules(key) ==
    {i \in DOMAIN ex.chk.expect :
        ex.chk.expect[i].type = "json" /\ ex.chk.expect[i].captureAs = key}

\* The greatest element of a non-empty set of numbers.
Last(S) == CHOOSE i \in S : \A h \in S : h <= i

\* C35: capture is independent of the assertion outcome.  For a parsed body,
\* details.captures has exactly the keys of the json rules with captureAs, and
\* under each key the value at the path of the (last) rule with that key, null
\* when the path is missing, whether or not the rule's assertions hold and
\* whatever ok was.
C35_CaptureIndependentOfOutcome ==
    ParsedAnswered =>
        LET captures == ex.result.details.captures IN
        /\ DOMAIN captures =
              {ex.chk.expect[i].captureAs : i \in {h \in DOMAIN ex.chk.expect :
                  ex.chk.expect[h].type = "json" /\ ex.chk.expect[h].captureAs # ""}}
        /\ \A key \in DOMAIN captures :
              LET value == getJsonPath(ex.body, ex.chk.expect[Last(CapturingRules(key))].path)
              IN  captures[key] = IF value.t = "undef" THEN Null ELSE value

\* The path of an equals rule is missing from the body: the check is not ok
\* and null was captured.
C35_Witness ==
    /\ ParsedAnswered
    /\ ex.chk.expect = <<JsonRule(<<"a", "b">>, FALSE, "x", "v")>>
    /\ ex.body = Obj([a |-> Str("x")])
    /\ ~ex.result.ok
    /\ ex.result.details.captures["v"] = Null

\* ------------------------------------------------------------------------
\* The refused acquire.
\* ------------------------------------------------------------------------

\* The calls of withCheckLock on key that were refused.
RefusedCalls(key) ==
    {t \in Tasks : /\ task[t].kind = "call"
                   /\ task[t].key = key
                   /\ task[t].pc = "done"
                   /\ ~task[t].ran}

\* C36: a rejected acquire changes nothing.  While the function of a holder h
\* is running, every call of withCheckLock on h's key is refused without
\* running its function, whatever number of calls were refused before it; the
\* refused call changes neither the set of held keys nor any other call, and
\* the key is held in every state up to the one in which h's own function
\* settles.
C36_RefusedAcquireChangesNothing ==
    [][\A h \in Tasks :
          (task[h].kind = "call" /\ task[h].pc = "running") =>
             /\ isCheckLocked(task[h].key)
             /\ task'[h].pc = "running" => task[h].key \in inFlight'
             /\ \A t \in Tasks :
                   (/\ task[t].pc = "idle"
                    /\ task'[t].kind = "call"
                    /\ task'[t].key = task[h].key)
                   => /\ task'[t].pc = "done"
                      /\ task'[t].outcome = "rejected"
                      /\ ~task'[t].ran
                      /\ inFlight' = inFlight
                      /\ \A u \in Tasks \ {t} : task'[u] = task[u]]_vars

\* The holder is still running after two calls on its key were refused.
C36_Witness ==
    \E h \in Tasks :
        /\ task[h].kind = "call" /\ task[h].pc = "running"
        /\ isCheckLocked(task[h].key)
        /\ Cardinality(RefusedCalls(task[h].key)) = 2

\* ------------------------------------------------------------------------
\* The marker listener of the room-echo check.
\* ------------------------------------------------------------------------

\* The marker as the room echoes it to the receiver.
MarkerEcho ==
    [kind |-> "message", type |-> "groupchat", from |-> "room", body |-> "marker"]

\* C37: the marker listener is attached in the step that follows the
\* receiver's join, when the sender's join has not been started and nothing
\* was sent; it is attached in every state from the sending of the marker up
\* to the finally block; while the echo is awaited and the receiver is online
\* the delivery of the marker is accepted, it settles the wait at once unless
\* the echo deadline has already settled it, and a wait settled by the marker
\* yields ok.
C37_ListenerBeforeMarker ==
    [][/\ (~echo.msgHandler /\ echo'.msgHandler) =>
             /\ sess["user2"].promise = "resolved"
             /\ sess["user1"] = NoSession
             /\ ~echo.markerSent /\ ~echo'.markerSent
       /\ (echo'.markerSent /\ echo'.pc # "returned") => echo'.msgHandler
       /\ (/\ echo.pc = "awaitEcho" /\ echo.race = "pending"
           /\ sess["user2"].conn = "online")
          => ENABLED EchoMessage(MarkerEcho)
       /\ (~echo.received /\ echo'.received) =>
             /\ echo.markerSent
             /\ echo.race # "rejected" => echo'.race = "resolved"
       /\ (echo.pc = "awaitEcho" /\ echo.race = "resolved") =>
             /\ echo'.pc = "finally"
             /\ echo'.result.ok]_vars

\* The marker was delivered while the echo was awaited; the continuation of
\* the wait has not run yet.
C37_Witness ==
    /\ echo.pc = "awaitEcho"
    /\ echo.markerSent
    /\ echo.received
    /\ echo.race = "resolved"

\* ------------------------------------------------------------------------
\* Termination of the room-echo check.
\* ------------------------------------------------------------------------

\* C38: every execution of the room-echo check eventually returns a result,
\* whatever the server does on the connections and the HTTP calls.
C38_EchoTerminates == <>(echo.pc = "returned")

\* ------------------------------------------------------------------------
\* The join settles once.
\* ------------------------------------------------------------------------

\* The join of session s has settled.
Settled(s) == sess[s].promise \in {"resolved", "rejected"}

\* C39: a join settles at most once.  Whatever event comes after the one that
\* settled the join (a presence, a presence error, the deadline, a transport
\* error), the outcome and its error stay what the first event made them; a
\* settled join has neither its stanza handler nor its deadline armed, so the
\* deadline of a resolved join is never enabled, and a resolved session that
\* is online is stopped only by a transport error or by the finally block of
\* the function that holds it.
C39_JoinSettlesOnce ==
    [][\A s \in EchoSessions :
          /\ Settled(s) =>
                /\ sess'[s].promise = sess[s].promise
                /\ sess'[s].err = sess[s].err
                /\ sess'[s].errStage = sess[s].errStage
                /\ ~sess[s].timer /\ ~sess[s].handler
                /\ ~ENABLED EchoJoinTimeout(s)
          /\ (/\ sess[s].promise = "resolved"
              /\ sess[s].conn = "online"
              /\ sess'[s].conn # "online")
             => \/ sess'[s] = onError(sess[s])
                \/ echo.pc = "finally" /\ s \in echo.held]_vars

\* The admin's session, resolved three joins ago, is still online when the
\* finally block is reached; the join of user1 was decided by a presence
\* error and the transport error that stopped it afterwards changed nothing
\* of the outcome.
C39_Witness ==
    /\ echo.pc = "finally"
    /\ sess["admin"].promise = "resolved"
    /\ sess["admin"].conn = "online"
    /\ sess["user2"].promise = "resolved"
    /\ sess["user1"].promise = "rejected"
    /\ sess["user1"].err = "XMPP_JOIN_ERROR"
    /\ sess["user1"].conn = "stopped"

\* ------------------------------------------------------------------------
\* The pre-armed media wait.
\* ------------------------------------------------------------------------

\* The errors of the upload step (lines 855 and 859).
UploadErrors == {"file upload failed", "file upload: missing results[0].location"}

\* The rejection of a wait is observed by the run: the run is suspended on
\* the wait or still on its way to awaiting it, or it has caught the
\* rejection.
WaitObserved ==
    \/ jr.pc \in WaitPcs \cup {"upload"}
    \/ jr.result.error = "XMPP_MESSAGE_TIMEOUT"

\* C40: no failure escapes through the pre-armed media wait.  A run whose
\* upload step failed after the media wait was armed ends with ok:false and
\* the upload error, and the rejection of a wait, whenever its deadline
\* fires, is observed by the run.
C40_ArmedWaitAbsorbed ==
    /\ jr.result.error \in UploadErrors =>
          /\ ~jr.result.ok
          /\ wait.match = "media"
    /\ wait.state = "rejected" => WaitObserved

====
